---- MODULE Spec2Model ----
(***************************************************************************)
(* A model of GltfLoader (Source/Scene/GltfLoader.js): the top-level glTF  *)
(* loader that fetches the glTF document through the ResourceCache,       *)
(* assembles the scene graph (parse), spawns one sub-loader per buffer     *)
(* and texture, and becomes READY when all of them have resolved.         *)
(*                                                                         *)
(* Promises are those of ThirdParty/when.js: a continuation registered on  *)
(* a promise runs synchronously when the promise settles, in registration  *)
(* order, and runs at once when the promise is already settled.            *)
(***************************************************************************)
EXTENDS Integers, Sequences, FiniteSets, TLC

\* ------------------------------------------------------------------------
\* Bounds of the model
\* ------------------------------------------------------------------------

\* parse() runs again on every tick when it throws: at most MaxParse runs.
MaxParse == 2

\* The accessors getAccessorTypedArray is applied to have at most MaxCount
\* elements, and at most MaxPadding components of padding between two
\* elements.
MaxCount == 3

MaxPadding == 2

\* ------------------------------------------------------------------------
\* ResourceLoaderState
\* ------------------------------------------------------------------------

UNLOADED == "UNLOADED"
LOADING == "LOADING"
PROCESSING == "PROCESSING"
READY == "READY"
FAILED == "FAILED"

\* ------------------------------------------------------------------------
\* Cache keys.  A key names one loader instance: the cache returns the same
\* instance for the same key.
\* ------------------------------------------------------------------------

NoKey == <<"none", 0, "">>
DocKey == <<"gltf", 0, "">>

BufferViewKey(bufferViewId) == <<"bufferView", bufferViewId, "">>

IndexBufferKey(accessorId, draco) ==
    IF draco.defined THEN <<"indexDraco", draco.bufferView, "">>
    ELSE <<"index", accessorId, "">>

VertexBufferKey(bufferViewId, draco, semantic) ==
    IF draco.defined /\ semantic \in draco.attributes
    THEN <<"vertexDraco", draco.bufferView, semantic>>
    ELSE <<"vertex", bufferViewId, "">>

TextureKey(textureInfo) == <<"texture", textureInfo.index, "">>

FeatureMetadataKey(n) == <<"featureMetadata", n, "">>

\* ------------------------------------------------------------------------
\* glTF documents.  Ids are 1-based; 0 stands for undefined.
\* ------------------------------------------------------------------------

NoDraco == [defined |-> FALSE, bufferView |-> 0, attributes |-> {},
            octEncoded |-> {}, componentDatatype |-> ""]

NoTexture == [index |-> 0, texCoord |-> 0]

Accessor(bufferView, byteOffset, type, componentType, count) ==
    [bufferView |-> bufferView, byteOffset |-> byteOffset, type |-> type,
     componentType |-> componentType, count |-> count]

\* extensions.EXT_feature_metadata of a primitive or of an instancing
\* extension, with its feature-ID attributes and feature-ID textures.
NoFeatureMetadata ==
    [defined |-> FALSE, featureIdAttributes |-> <<>>, featureIdTextures |-> <<>>]

FeatureMetadata(featureIdAttributes, featureIdTextures) ==
    [defined |-> TRUE, featureIdAttributes |-> featureIdAttributes,
     featureIdTextures |-> featureIdTextures]

GltfFeatureIdAttribute(featureTable, attribute) ==
    [featureTable |-> featureTable,
     featureIds |-> [attribute |-> attribute, constant |-> 0, divisor |-> 1]]

GltfFeatureIdTexture(featureTable, channels, texture) ==
    [featureTable |-> featureTable,
     featureIds |-> [channels |-> channels, texture |-> texture]]

\* extensions.EXT_mesh_gpu_instancing of a node.
NoInstancing ==
    [defined |-> FALSE, attributes |-> <<>>, featureMetadata |-> NoFeatureMetadata]

GltfPrimitive(attributes, targets, indices, material, draco) ==
    [attributes |-> attributes, targets |-> targets, indices |-> indices,
     material |-> material, draco |-> draco, featureMetadata |-> NoFeatureMetadata]

GltfMaterial(hasPbr, baseColorTexture, metallicRoughnessTexture, emissiveTexture) ==
    [hasPbr |-> hasPbr, baseColorTexture |-> baseColorTexture,
     metallicRoughnessTexture |-> metallicRoughnessTexture,
     emissiveTexture |-> emissiveTexture]

\* An array of the document (array names it) or undefined.
NoWeights == [defined |-> FALSE, values |-> <<>>, array |-> ""]

Weights(array, values) == [defined |-> TRUE, values |-> values, array |-> array]

\* A numeric array of the document (or undefined), and the math object
\* unpacked from it.
NoValue == [defined |-> FALSE, type |-> "", values |-> <<>>]

ArrayValue(values) == [defined |-> TRUE, type |-> "Array", values |-> values]

\* A node as the document loader hands it over: without a declared
\* transform it has the identity matrix.
GltfNode(mesh, children) ==
    [mesh |-> mesh, children |-> children, weights |-> NoWeights, skin |-> 0,
     matrix |-> ArrayValue(<<"identity">>), translation |-> NoValue,
     rotation |-> NoValue, scale |-> NoValue, instancing |-> NoInstancing]

GltfMesh(primitives, weights) == [primitives |-> primitives, weights |-> weights]

GltfSkin(joints, inverseBindMatrices) ==
    [joints |-> joints, inverseBindMatrices |-> inverseBindMatrices]

Sem(semantic, accessor) == [semantic |-> semantic, accessor |-> accessor]

\* Two nodes; POSITION and NORMAL interleaved in buffer view 1 (offsets 12
\* and 0, stride 24), indices in buffer view 2.
BoxInterleaved ==
    [name |-> "BoxInterleaved",
     nodes |-> <<GltfNode(0, <<2>>), GltfNode(1, <<>>)>>,
     meshes |-> <<GltfMesh(<<GltfPrimitive(<<Sem("NORMAL", 1), Sem("POSITION", 2)>>,
                                           <<>>, 3, 0, NoDraco)>>, NoWeights)>>,
     accessors |-> <<Accessor(1, 0, "VEC3", "FLOAT", 24),
                     Accessor(1, 12, "VEC3", "FLOAT", 24),
                     Accessor(2, 0, "SCALAR", "UNSIGNED_SHORT", 36)>>,
     bufferViews |-> <<[byteStride |-> 24], [byteStride |-> 0]>>,
     materials |-> <<>>,
     textures |-> <<>>,
     skins |-> <<>>,
     extFeatureMetadata |-> FALSE,
     scene |-> 1,
     scenes |-> <<[nodes |-> <<1>>]>>]

\* One textured primitive: POSITION in buffer view 1, TEXCOORD_0 in buffer
\* view 2 (tightly packed, stride 8), and a base color texture.
BoxTextured ==
    [name |-> "BoxTextured",
     nodes |-> <<GltfNode(1, <<>>)>>,
     meshes |-> <<GltfMesh(<<GltfPrimitive(<<Sem("POSITION", 1), Sem("TEXCOORD_0", 2)>>,
                                           <<>>, 0, 1, NoDraco)>>, NoWeights)>>,
     accessors |-> <<Accessor(1, 0, "VEC3", "FLOAT", 24),
                     Accessor(2, 0, "VEC2", "FLOAT", 24)>>,
     bufferViews |-> <<[byteStride |-> 0], [byteStride |-> 0]>>,
     materials |-> <<GltfMaterial(TRUE, [index |-> 1, texCoord |-> 0],
                                  NoTexture, NoTexture)>>,
     textures |-> <<[source |-> 1, sampler |-> "LINEAR"]>>,
     skins |-> <<>>,
     extFeatureMetadata |-> FALSE,
     scene |-> 1,
     scenes |-> <<[nodes |-> <<1>>]>>]

\* A node without a mesh: no sub-loader at all.
EmptyScene ==
    [name |-> "EmptyScene",
     nodes |-> <<GltfNode(0, <<>>)>>,
     meshes |-> <<>>,
     accessors |-> <<>>,
     bufferViews |-> <<>>,
     materials |-> <<>>,
     textures |-> <<>>,
     skins |-> <<>>,
     extFeatureMetadata |-> FALSE,
     scene |-> 1,
     scenes |-> <<[nodes |-> <<1>>]>>]

\* One attribute, and the document declares EXT_feature_metadata.
WithFeatureMetadata ==
    [name |-> "WithFeatureMetadata",
     nodes |-> <<GltfNode(1, <<>>)>>,
     meshes |-> <<GltfMesh(<<GltfPrimitive(<<Sem("POSITION", 1)>>,
                                           <<>>, 0, 0, NoDraco)>>, NoWeights)>>,
     accessors |-> <<Accessor(1, 0, "VEC3", "FLOAT", 3)>>,
     bufferViews |-> <<[byteStride |-> 0]>>,
     materials |-> <<>>,
     textures |-> <<>>,
     skins |-> <<>>,
     extFeatureMetadata |-> TRUE,
     scene |-> 1,
     scenes |-> <<[nodes |-> <<1>>]>>]

\* One primitive with two morph targets, all three POSITION accessors in
\* buffer view 1 (stride 12); the mesh declares the weights, the node none.
SimpleMorph ==
    [name |-> "SimpleMorph",
     nodes |-> <<GltfNode(1, <<>>)>>,
     meshes |-> <<GltfMesh(<<GltfPrimitive(<<Sem("POSITION", 1)>>,
                                           << <<Sem("POSITION", 2)>>,
                                              <<Sem("POSITION", 3)>> >>,
                                           0, 0, NoDraco)>>,
                           Weights("meshes[1].weights", <<5, 5>>))>>,
     accessors |-> <<Accessor(1, 0, "VEC3", "FLOAT", 3),
                     Accessor(1, 36, "VEC3", "FLOAT", 3),
                     Accessor(1, 72, "VEC3", "FLOAT", 3)>>,
     bufferViews |-> <<[byteStride |-> 12]>>,
     materials |-> <<>>,
     textures |-> <<>>,
     skins |-> <<>>,
     extFeatureMetadata |-> FALSE,
     scene |-> 1,
     scenes |-> <<[nodes |-> <<1>>]>>]

\* Two nodes with morph targets whose accessors have no buffer view: node 1
\* declares weights that override those of its mesh, node 2 and its mesh
\* declare none.
MorphWeights ==
    [name |-> "MorphWeights",
     nodes |-> <<[GltfNode(1, <<>>) EXCEPT
                    !.weights = Weights("nodes[1].weights", <<1, 2>>)],
                 GltfNode(2, <<>>)>>,
     meshes |-> <<GltfMesh(<<GltfPrimitive(<<Sem("POSITION", 1)>>,
                                           << <<Sem("POSITION", 1)>>,
                                              <<Sem("POSITION", 1)>> >>,
                                           0, 0, NoDraco)>>,
                           Weights("meshes[1].weights", <<5, 5>>)),
                  GltfMesh(<<GltfPrimitive(<<Sem("POSITION", 1)>>,
                                           << <<Sem("POSITION", 1)>>,
                                              <<Sem("POSITION", 1)>> >>,
                                           0, 0, NoDraco)>>,
                           NoWeights)>>,
     accessors |-> <<Accessor(0, 0, "VEC3", "FLOAT", 3)>>,
     bufferViews |-> <<>>,
     materials |-> <<>>,
     textures |-> <<>>,
     skins |-> <<>>,
     extFeatureMetadata |-> FALSE,
     scene |-> 1,
     scenes |-> <<[nodes |-> <<1>>]>>]

\* Node 1 has a mesh and references skin 1, whose joints are nodes 2 and 3
\* and which has no inverseBindMatrices accessor.
SkinWithoutMatrices ==
    [name |-> "SkinWithoutMatrices",
     nodes |-> <<[GltfNode(1, <<2>>) EXCEPT !.skin = 1],
                 GltfNode(0, <<3>>), GltfNode(0, <<>>)>>,
     meshes |-> <<GltfMesh(<<GltfPrimitive(<<Sem("POSITION", 1)>>,
                                           <<>>, 0, 0, NoDraco)>>, NoWeights)>>,
     accessors |-> <<Accessor(1, 0, "VEC3", "FLOAT", 4)>>,
     bufferViews |-> <<[byteStride |-> 0]>>,
     materials |-> <<>>,
     textures |-> <<>>,
     skins |-> <<GltfSkin(<<2, 3>>, 0)>>,
     extFeatureMetadata |-> FALSE,
     scene |-> 1,
     scenes |-> <<[nodes |-> <<1>>]>>]

\* Three nodes without meshes: node 1 declares a matrix, node 2 translation,
\* rotation and scale, node 3 both a matrix and the triple.
NodeTransforms ==
    [name |-> "NodeTransforms",
     nodes |-> <<[GltfNode(0, <<2, 3>>) EXCEPT !.matrix = ArrayValue(<<"m1">>)],
                 [GltfNode(0, <<>>) EXCEPT !.matrix = NoValue,
                                           !.translation = ArrayValue(<<"t2">>),
                                           !.rotation = ArrayValue(<<"r2">>),
                                           !.scale = ArrayValue(<<"s2">>)],
                 [GltfNode(0, <<>>) EXCEPT !.matrix = ArrayValue(<<"m3">>),
                                           !.translation = ArrayValue(<<"t3">>),
                                           !.rotation = ArrayValue(<<"r3">>),
                                           !.scale = ArrayValue(<<"s3">>)]>>,
     meshes |-> <<>>,
     accessors |-> <<>>,
     bufferViews |-> <<>>,
     materials |-> <<>>,
     textures |-> <<>>,
     skins |-> <<>>,
     extFeatureMetadata |-> FALSE,
     scene |-> 1,
     scenes |-> <<[nodes |-> <<1>>]>>]

\* A mesh-compressed primitive: the compressed payload (buffer view 2) covers
\* NORMAL, octahedral-encoded with one byte per component, and the indices;
\* the accessor of NORMAL still declares VEC3 at offset 4.  TEXCOORD_0 is not
\* covered and lies in buffer view 1 at offset 8 with stride 16.
DracoNormals ==
    [name |-> "DracoNormals",
     nodes |-> <<GltfNode(1, <<>>)>>,
     meshes |-> <<GltfMesh(<<GltfPrimitive(<<Sem("NORMAL", 1), Sem("TEXCOORD_0", 2)>>,
                                           <<>>, 3, 0,
                                           [defined |-> TRUE, bufferView |-> 2,
                                            attributes |-> {"NORMAL"},
                                            octEncoded |-> {"NORMAL"},
                                            componentDatatype |-> "UNSIGNED_BYTE"])>>,
                           NoWeights)>>,
     accessors |-> <<Accessor(1, 4, "VEC3", "FLOAT", 24),
                     Accessor(1, 8, "VEC2", "FLOAT", 24),
                     Accessor(0, 0, "SCALAR", "UNSIGNED_SHORT", 36)>>,
     bufferViews |-> <<[byteStride |-> 16], [byteStride |-> 0]>>,
     materials |-> <<>>,
     textures |-> <<>>,
     skins |-> <<>>,
     extFeatureMetadata |-> FALSE,
     scene |-> 1,
     scenes |-> <<[nodes |-> <<1>>]>>]

\* One node without a mesh that declares GPU instancing: TRANSLATION per
\* instance in buffer view 1, and one feature-ID attribute.
Instanced ==
    [name |-> "Instanced",
     nodes |-> <<[GltfNode(0, <<>>) EXCEPT !.instancing =
                    [defined |-> TRUE,
                     attributes |-> <<Sem("TRANSLATION", 1)>>,
                     featureMetadata |->
                        FeatureMetadata(<<GltfFeatureIdAttribute(1, "_FEATURE_ID_0")>>,
                                        <<>>)]]>>,
     meshes |-> <<>>,
     accessors |-> <<Accessor(1, 0, "VEC3", "FLOAT", 4)>>,
     bufferViews |-> <<[byteStride |-> 0]>>,
     materials |-> <<>>,
     textures |-> <<>>,
     skins |-> <<>>,
     extFeatureMetadata |-> FALSE,
     scene |-> 1,
     scenes |-> <<[nodes |-> <<1>>]>>]

\* A primitive with two feature-ID attributes and one feature-ID texture
\* whose texture declares a linear sampler; POSITION has no buffer view.
FeatureIds ==
    [name |-> "FeatureIds",
     nodes |-> <<GltfNode(1, <<>>)>>,
     meshes |-> <<GltfMesh(
                    <<[GltfPrimitive(<<Sem("POSITION", 1)>>, <<>>, 0, 0, NoDraco)
                         EXCEPT !.featureMetadata =
                           FeatureMetadata(
                             <<GltfFeatureIdAttribute(1, "_FEATURE_ID_0"),
                               GltfFeatureIdAttribute(2, "_FEATURE_ID_1")>>,
                             <<GltfFeatureIdTexture(1, "r",
                                                    [index |-> 1, texCoord |-> 0])>>)]>>,
                    NoWeights)>>,
     accessors |-> <<Accessor(0, 0, "VEC3", "FLOAT", 24)>>,
     bufferViews |-> <<>>,
     materials |-> <<>>,
     textures |-> <<[source |-> 1, sampler |-> "LINEAR"]>>,
     skins |-> <<>>,
     extFeatureMetadata |-> FALSE,
     scene |-> 1,
     scenes |-> <<[nodes |-> <<1>>]>>]

\* A feature-ID texture for whose texture no image is selected (its only
\* image is in a format the runtime does not support).
FeatureIdTextureNoImage ==
    [name |-> "FeatureIdTextureNoImage",
     nodes |-> <<GltfNode(1, <<>>)>>,
     meshes |-> <<GltfMesh(
                    <<[GltfPrimitive(<<Sem("POSITION", 1)>>, <<>>, 0, 0, NoDraco)
                         EXCEPT !.featureMetadata =
                           FeatureMetadata(
                             <<>>,
                             <<GltfFeatureIdTexture(1, "r",
                                                    [index |-> 1, texCoord |-> 0])>>)]>>,
                    NoWeights)>>,
     accessors |-> <<Accessor(0, 0, "VEC3", "FLOAT", 24)>>,
     bufferViews |-> <<>>,
     materials |-> <<>>,
     textures |-> <<[source |-> 0, sampler |-> "LINEAR"]>>,
     skins |-> <<>>,
     extFeatureMetadata |-> FALSE,
     scene |-> 1,
     scenes |-> <<[nodes |-> <<1>>]>>]

\* A skin with two joints whose inverse bind matrices are accessor 1, two
\* MAT4 in buffer view 1.
SkinWithMatrices ==
    [name |-> "SkinWithMatrices",
     nodes |-> <<[GltfNode(0, <<2>>) EXCEPT !.skin = 1],
                 GltfNode(0, <<3>>), GltfNode(0, <<>>)>>,
     meshes |-> <<>>,
     accessors |-> <<Accessor(1, 0, "MAT4", "FLOAT", 2)>>,
     bufferViews |-> <<[byteStride |-> 0]>>,
     materials |-> <<>>,
     textures |-> <<>>,
     skins |-> <<GltfSkin(<<2, 3>>, 1)>>,
     extFeatureMetadata |-> FALSE,
     scene |-> 1,
     scenes |-> <<[nodes |-> <<1>>]>>]

\* A primitive whose material declares an emissive texture and no
\* metallic-roughness block; POSITION and the index accessor have no buffer
\* view.
EmissiveTextured ==
    [name |-> "EmissiveTextured",
     nodes |-> <<GltfNode(1, <<>>)>>,
     meshes |-> <<GltfMesh(<<GltfPrimitive(<<Sem("POSITION", 1)>>, <<>>, 2, 1, NoDraco)>>,
                           NoWeights)>>,
     accessors |-> <<Accessor(0, 0, "VEC3", "FLOAT", 24),
                     Accessor(0, 0, "SCALAR", "UNSIGNED_SHORT", 36)>>,
     bufferViews |-> <<>>,
     materials |-> <<GltfMaterial(FALSE, NoTexture, NoTexture,
                                  [index |-> 1, texCoord |-> 0])>>,
     textures |-> <<[source |-> 1, sampler |-> "LINEAR"]>>,
     skins |-> <<>>,
     extFeatureMetadata |-> FALSE,
     scene |-> 1,
     scenes |-> <<[nodes |-> <<1>>]>>]

\* Two nodes, the second a child of the first, in a document that names no
\* default scene.
NoDefaultScene ==
    [name |-> "NoDefaultScene",
     nodes |-> <<GltfNode(0, <<2>>), GltfNode(0, <<>>)>>,
     meshes |-> <<>>,
     accessors |-> <<>>,
     bufferViews |-> <<>>,
     materials |-> <<>>,
     textures |-> <<>>,
     skins |-> <<>>,
     extFeatureMetadata |-> FALSE,
     scene |-> 0,
     scenes |-> <<[nodes |-> <<1>>]>>]

Documents ==
    {BoxInterleaved, BoxTextured, EmptyScene, WithFeatureMetadata, SimpleMorph,
     MorphWeights, SkinWithoutMatrices, NodeTransforms, DracoNormals, Instanced,
     FeatureIds, FeatureIdTextureNoImage, SkinWithMatrices, EmissiveTextured,
     NoDefaultScene}

\* ------------------------------------------------------------------------
\* The loader and its environment as one record m: the GltfLoader's fields,
\* the scene-graph objects it allocated, the continuations it registered,
\* and the cache with the sub-loaders in it.
\*
\* Statements that follow one another are written
\*     Only({ rest(x) : x \in {first} })
\* which evaluates first once and names its value x in rest.
\* ------------------------------------------------------------------------

Only(S) == CHOOSE x \in S : TRUE

Status(m, k) == IF k \in DOMAIN m.sub THEN m.sub[k].status ELSE "absent"

Mine(m, k) == IF k \in DOMAIN m.mine THEN m.mine[k] ELSE 0

Range(s) == {s[i] : i \in 1..Len(s)}

\* ResourceCache.load*: an existing entry gains a reference, else a new
\* loader is created and starts loading.
CacheAcquire(m, k) ==
    [m EXCEPT
       !.sub = IF k \in DOMAIN m.sub
               THEN [m.sub EXCEPT ![k].refs = @ + 1]
               ELSE m.sub @@ (k :> [status |-> "pending", refs |-> 1, unloads |-> 0]),
       !.mine = IF k \in DOMAIN m.mine
                THEN [m.mine EXCEPT ![k] = @ + 1]
                ELSE m.mine @@ (k :> 1)]

\* ResourceCache.unload: the entry loses a reference.
CacheRelease(m, k) ==
    [m EXCEPT !.sub = [m.sub EXCEPT ![k].refs = @ - 1],
              !.mine = [m.mine EXCEPT ![k] = @ - 1]]

\* A loader created outside the cache (new GltfFeatureMetadataLoader + load()).
StartLoader(m, k) ==
    [m EXCEPT !.sub = m.sub @@ (k :> [status |-> "pending", refs |-> 0, unloads |-> 0])]

\* loader.unload() called on the sub-loader itself.
LoaderUnload(m, k) == [m EXCEPT !.sub = [m.sub EXCEPT ![k].unloads = @ + 1]]

\* ------------------------------------------------------------------------
\* Scene-graph objects that a sub-loader populates
\* ------------------------------------------------------------------------

NumberOfComponentsForType(type) ==
    CASE type = "SCALAR" -> 1
      [] type = "VEC2" -> 2
      [] type = "VEC3" -> 3
      [] type = "VEC4" -> 4
      [] type = "MAT2" -> 4
      [] type = "MAT3" -> 9
      [] OTHER -> 16

SizeInBytes(componentType) ==
    CASE componentType \in {"BYTE", "UNSIGNED_BYTE"} -> 1
      [] componentType \in {"SHORT", "UNSIGNED_SHORT"} -> 2
      [] OTHER -> 4

getAccessorByteStride(gltf, accessor) ==
    IF accessor.bufferView # 0 /\ gltf.bufferViews[accessor.bufferView].byteStride > 0
    THEN gltf.bufferViews[accessor.bufferView].byteStride
    ELSE SizeInBytes(accessor.componentType) * NumberOfComponentsForType(accessor.type)

\* A typed array is a function on 0..length-1.  The typed array of a buffer
\* view: length components of componentType, component k holding k + 1.
BufferViewTypedArray(length) == [byteOffset |-> 0, buffer |-> [k \in 0..(length - 1) |-> k + 1]]

\* ComponentDatatype.createArrayBufferView: a view of length components on
\* the buffer, from byteOffset on; a RangeError when the buffer is shorter.
createArrayBufferView(componentType, buffer, byteOffset, length) ==
    IF (byteOffset \div SizeInBytes(componentType)) + length > Cardinality(DOMAIN buffer)
    THEN [thrown |-> TRUE, array |-> <<>>]
    ELSE [thrown |-> FALSE,
          array |-> [k \in 0..(length - 1) |->
                       buffer[(byteOffset \div SizeInBytes(componentType)) + k]]]

\* ComponentDatatype.createTypedArray: length components, all zero.
createTypedArray(componentType, length) == [k \in 0..(length - 1) |-> 0]

\* array[index] = value: a write past the end of a typed array is dropped.
SetElement(array, index, value) ==
    IF index \in DOMAIN array THEN [array EXCEPT ![index] = value] ELSE array

\* The two loops over i < count and j < componentCount, k = i * componentCount + j:
\* accessorTypedArray[i * count + j] = componentsTypedArray[i * componentStride + j]
RECURSIVE CopyComponents(_, _, _, _, _, _)
CopyComponents(accessorTypedArray, componentsTypedArray, count, componentCount, componentStride, k) ==
    IF k >= count * componentCount THEN accessorTypedArray
    ELSE CopyComponents(
           SetElement(accessorTypedArray,
                      (k \div componentCount) * count + (k % componentCount),
                      componentsTypedArray[(k \div componentCount) * componentStride
                                             + (k % componentCount)]),
           componentsTypedArray, count, componentCount, componentStride, k + 1)

getAccessorTypedArray(gltf, accessor, bufferViewTypedArray) ==
    Only({
      IF componentsTypedArray.thrown THEN componentsTypedArray
      ELSE IF getAccessorByteStride(gltf, accessor)
                = SizeInBytes(accessor.componentType)
                    * NumberOfComponentsForType(accessor.type)
      THEN componentsTypedArray
      ELSE [thrown |-> FALSE,
            array |-> CopyComponents(
                        createTypedArray(accessor.componentType,
                                         accessor.count
                                           * NumberOfComponentsForType(accessor.type)),
                        componentsTypedArray.array,
                        accessor.count,
                        NumberOfComponentsForType(accessor.type),
                        getAccessorByteStride(gltf, accessor)
                          \div SizeInBytes(accessor.componentType),
                        0)]
      : componentsTypedArray \in {
          createArrayBufferView(
            accessor.componentType,
            bufferViewTypedArray.buffer,
            bufferViewTypedArray.byteOffset + accessor.byteOffset,
            (getAccessorByteStride(gltf, accessor) \div SizeInBytes(accessor.componentType))
              * (accessor.count * NumberOfComponentsForType(accessor.type)))} })

NewObject(kind) ==
    [kind |-> kind, semantic |-> "", type |-> "", componentDatatype |-> "",
     count |-> 0, byteOffset |-> 0, byteStride |-> 0, buffer |-> NoKey,
     quantized |-> FALSE, texCoord |-> 0, sampler |-> "", typedArray |-> NoKey]

\* createAttribute that leaves byteOffset at its default.
createAttribute_NoByteOffset(gltf, accessorId, semantic) ==
    [NewObject("attribute") EXCEPT
       !.semantic = semantic,
       !.componentDatatype = gltf.accessors[accessorId].componentType,
       !.count = gltf.accessors[accessorId].count,
       !.type = gltf.accessors[accessorId].type,
       !.byteStride = getAccessorByteStride(gltf, gltf.accessors[accessorId])]

createAttribute(gltf, accessorId, semantic) ==
    [NewObject("attribute") EXCEPT
       !.semantic = semantic,
       !.componentDatatype = gltf.accessors[accessorId].componentType,
       !.count = gltf.accessors[accessorId].count,
       !.type = gltf.accessors[accessorId].type,
       !.byteOffset = gltf.accessors[accessorId].byteOffset,
       !.byteStride = getAccessorByteStride(gltf, gltf.accessors[accessorId])]

\* The handle a resolved sub-loader exposes (vertexBuffer, indexBuffer, texture).
Handle(k) == k

\* Populate without the isDestroyed check of the continuation.
Populate_Unguarded(m, c) ==
    IF c.kind = "attribute" /\ c.dracoCovered
    THEN [m EXCEPT !.objs[c.obj] =
            [@ EXCEPT !.buffer = Handle(c.loader),
                      !.byteOffset = 0,
                      !.byteStride = 0,
                      !.componentDatatype = c.draco.componentDatatype,
                      !.type = IF c.semantic \in c.draco.octEncoded THEN "VEC2" ELSE @,
                      !.quantized = TRUE]]
    ELSE IF c.kind = "typedArray"
    THEN [m EXCEPT !.objs[c.obj].typedArray = Handle(c.loader)]
    ELSE [m EXCEPT !.objs[c.obj].buffer = Handle(c.loader)]

\* Populate that keeps the arity of the accessor for a compressed attribute.
Populate_KeepsArity(m, c) ==
    IF m.destroyed THEN m
    ELSE IF c.kind = "attribute" /\ c.dracoCovered
    THEN [m EXCEPT !.objs[c.obj] =
            [@ EXCEPT !.buffer = Handle(c.loader),
                      !.byteOffset = 0,
                      !.byteStride = 0,
                      !.componentDatatype = c.draco.componentDatatype,
                      !.quantized = TRUE]]
    ELSE IF c.kind = "typedArray"
    THEN [m EXCEPT !.objs[c.obj].typedArray = Handle(c.loader)]
    ELSE [m EXCEPT !.objs[c.obj].buffer = Handle(c.loader)]

\* The body of a population continuation c, run when its sub-loader resolved.
Populate(m, c) ==
    IF m.destroyed THEN m
    ELSE IF c.kind = "attribute" /\ c.dracoCovered
    THEN [m EXCEPT !.objs[c.obj] =
            [@ EXCEPT !.buffer = Handle(c.loader),
                      !.byteOffset = 0,
                      !.byteStride = 0,
                      !.componentDatatype = c.draco.componentDatatype,
                      !.type = IF c.semantic \in c.draco.octEncoded THEN "VEC2" ELSE @,
                      !.quantized = TRUE]]
    ELSE IF c.kind = "typedArray"
    THEN [m EXCEPT !.objs[c.obj].typedArray = Handle(c.loader)]
    ELSE [m EXCEPT !.objs[c.obj].buffer = Handle(c.loader)]

\* promise.then(continuation): kept for later, and run at once when the
\* promise is already resolved.
Then(m, c) ==
    IF Status(m, c.loader) = "ready"
    THEN Populate([m EXCEPT !.conts = Append(@, c)], c)
    ELSE [m EXCEPT !.conts = Append(@, c)]

Continuation(kind, loader, obj, semantic, draco) ==
    [kind |-> kind, loader |-> loader, obj |-> obj, semantic |-> semantic,
     draco |-> draco,
     dracoCovered |-> draco.defined /\ semantic \in draco.attributes]

\* An operator that builds part of the graph returns the new m and what it built.
Out(m, out) == [m |-> m, out |-> out]

loadVertexBuffer(m, gltf, accessorId, semantic, draco) ==
    [CacheAcquire(m, VertexBufferKey(gltf.accessors[accessorId].bufferView, draco, semantic))
       EXCEPT !.loaders =
         Append(@, VertexBufferKey(gltf.accessors[accessorId].bufferView, draco, semantic))]

loadIndexBuffer(m, gltf, accessorId, draco) ==
    [CacheAcquire(m, IndexBufferKey(accessorId, draco))
       EXCEPT !.loaders = Append(@, IndexBufferKey(accessorId, draco))]

loadVertexAttribute(m, gltf, accessorId, semantic, draco) ==
    Only({
      IF ~draco.defined /\ gltf.accessors[accessorId].bufferView = 0
      THEN Out(m1, Len(m1.objs))
      ELSE Only({
             Out(Then(m2, Continuation("attribute", m2.loaders[Len(m2.loaders)],
                                       Len(m2.objs), semantic, draco)),
                 Len(m2.objs))
             : m2 \in {loadVertexBuffer(m1, gltf, accessorId, semantic, draco)} })
      : m1 \in {[m EXCEPT !.objs = Append(@, createAttribute(gltf, accessorId, semantic))]} })

\* loadIndices that leaves out the indices of every accessor without a
\* buffer view, mesh-compressed or not.
loadIndices_IgnoresDraco(m, gltf, accessorId, draco) ==
    IF gltf.accessors[accessorId].bufferView = 0
    THEN Out(m, 0)
    ELSE Only({
           Out(Then(m2, Continuation("indices", m2.loaders[Len(m2.loaders)],
                                     Len(m2.objs), "", NoDraco)),
               Len(m2.objs))
           : m2 \in {loadIndexBuffer(
                       [m EXCEPT !.objs = Append(@,
                          [NewObject("indices") EXCEPT
                             !.componentDatatype = gltf.accessors[accessorId].componentType,
                             !.count = gltf.accessors[accessorId].count])],
                       gltf, accessorId, draco)} })

loadIndices(m, gltf, accessorId, draco) ==
    IF ~draco.defined /\ gltf.accessors[accessorId].bufferView = 0
    THEN Out(m, 0)
    ELSE Only({
           Out(Then(m2, Continuation("indices", m2.loaders[Len(m2.loaders)],
                                     Len(m2.objs), "", NoDraco)),
               Len(m2.objs))
           : m2 \in {loadIndexBuffer(
                       [m EXCEPT !.objs = Append(@,
                          [NewObject("indices") EXCEPT
                             !.componentDatatype = gltf.accessors[accessorId].componentType,
                             !.count = gltf.accessors[accessorId].count])],
                       gltf, accessorId, draco)} })

\* GltfLoaderUtil.getImageIdFromTexture: the image selected for the texture,
\* undefined (0) when the texture has no image in a supported format.
getImageIdFromTexture(gltf, textureId) == gltf.textures[textureId].source

\* GltfLoaderUtil.createSampler: the sampler the document declares.
createSampler(gltf, textureInfo) == gltf.textures[textureInfo.index].sampler

loadTexture(m, gltf, textureInfo) ==
    IF getImageIdFromTexture(gltf, textureInfo.index) = 0
    THEN Out(m, 0)
    ELSE Only({
           Out(Then(m2, Continuation("texture", TextureKey(textureInfo),
                                     Len(m2.objs), "", NoDraco)),
               Len(m2.objs))
           : m2 \in {[CacheAcquire(m, TextureKey(textureInfo)) EXCEPT
                        !.loaders = Append(@, TextureKey(textureInfo)),
                        !.objs = Append(@, [NewObject("texture") EXCEPT
                                              !.texCoord = textureInfo.texCoord,
                                              !.sampler =
                                                 createSampler(gltf, textureInfo)])]} })

\* new Material(): every slot undefined.
NewMaterial ==
    [defined |-> FALSE, hasMetallicRoughness |-> FALSE, baseColorTexture |-> 0,
     metallicRoughnessTexture |-> 0, emissiveTexture |-> NoTexture,
     normalTexture |-> NoTexture, occlusionTexture |-> NoTexture]

\* if (defined(textureInfo)) slot = loadTexture(...)
TextureSlot(m, gltf, textureInfo) ==
    IF textureInfo.index # 0 THEN loadTexture(m, gltf, textureInfo) ELSE Out(m, 0)

\* The metallic-roughness slots are read from gltfMaterial; the top-level
\* slots (emissive, normal, occlusion) are looked up on the output material,
\* which new Material() leaves undefined.
loadMaterial(m, gltf, gltfMaterial) ==
    Only({ Only({ Only({ Only({ Only({
      Out(r5.m, [defined |-> TRUE,
                 hasMetallicRoughness |-> gltfMaterial.hasPbr,
                 baseColorTexture |-> r1.out,
                 metallicRoughnessTexture |-> r2.out,
                 emissiveTexture |-> r3.out,
                 normalTexture |-> r4.out,
                 occlusionTexture |-> r5.out])
      : r5 \in {TextureSlot(r4.m, gltf, NewMaterial.occlusionTexture)} })
      : r4 \in {TextureSlot(r3.m, gltf, NewMaterial.normalTexture)} })
      : r3 \in {TextureSlot(r2.m, gltf, NewMaterial.emissiveTexture)} })
      : r2 \in {IF gltfMaterial.hasPbr
                THEN TextureSlot(r1.m, gltf, gltfMaterial.metallicRoughnessTexture)
                ELSE Out(r1.m, 0)} })
      : r1 \in {IF gltfMaterial.hasPbr
                THEN TextureSlot(m, gltf, gltfMaterial.baseColorTexture)
                ELSE Out(m, 0)} })

\* An output material with no slot set, for a primitive without a material.
NoMaterial ==
    [defined |-> FALSE, hasMetallicRoughness |-> FALSE, baseColorTexture |-> 0,
     metallicRoughnessTexture |-> 0, emissiveTexture |-> 0, normalTexture |-> 0,
     occlusionTexture |-> 0]

\* for (semantic in attributes): one loadVertexAttribute per entry, in order.
RECURSIVE loadAttributes(_, _, _, _, _)
loadAttributes(m, gltf, attributes, draco, i) ==
    IF i > Len(attributes) THEN Out(m, <<>>)
    ELSE Only({ Only({
           Out(rest.m, <<r.out>> \o rest.out)
           : rest \in {loadAttributes(r.m, gltf, attributes, draco, i + 1)} })
           : r \in {loadVertexAttribute(m, gltf, attributes[i].accessor,
                                        attributes[i].semantic, draco)} })

loadMorphTarget(m, gltf, target) == loadAttributes(m, gltf, target, NoDraco, 1)

RECURSIVE loadMorphTargets(_, _, _, _)
loadMorphTargets(m, gltf, targets, i) ==
    IF i > Len(targets) THEN Out(m, <<>>)
    ELSE Only({ Only({
           Out(rest.m, <<r.out>> \o rest.out)
           : rest \in {loadMorphTargets(r.m, gltf, targets, i + 1)} })
           : r \in {loadMorphTarget(m, gltf, targets[i])} })

\* defaultValue(a, b) for arrays of the document.
defaultValue(a, b) == IF a.defined THEN a ELSE b

\* The weights used as they are, without slice().
primitiveMorphWeights_NoCopy(morphWeights, targetsLength) ==
    IF morphWeights.defined THEN morphWeights
    ELSE [defined |-> TRUE, values |-> [i \in 1..targetsLength |-> 0], array |-> "new"]

\* defined(morphWeights) ? morphWeights.slice() : new Array(targetsLength).fill(0.0)
primitiveMorphWeights(morphWeights, targetsLength) ==
    IF morphWeights.defined
    THEN [defined |-> TRUE, values |-> morphWeights.values, array |-> "new"]
    ELSE [defined |-> TRUE, values |-> [i \in 1..targetsLength |-> 0], array |-> "new"]

loadFeatureIdAttribute(gltfFeatureIdAttribute) ==
    [featureTableId |-> gltfFeatureIdAttribute.featureTable,
     semantic |-> gltfFeatureIdAttribute.featureIds.attribute,
     constant |-> gltfFeatureIdAttribute.featureIds.constant,
     divisor |-> gltfFeatureIdAttribute.featureIds.divisor]

\* var featureIdAttributesLength = featureIdAttributesLength: the variable
\* is initialised from itself, so it is undefined and i < undefined is
\* false for every i; the loop pushes nothing.
loadFeatureIdAttributes(featureIdAttributes) ==
    [i \in {j \in 1..Len(featureIdAttributes) : FALSE}
       |-> loadFeatureIdAttribute(featureIdAttributes[i])]

\* loadTexture returns undefined when no image is selected; setting the
\* sampler on it throws.
loadFeatureIdTexture(m, gltf, gltfFeatureIdTexture) ==
    Only({
      IF r.out = 0
      THEN Out([r.m EXCEPT !.thrown = TRUE], 0)
      ELSE Out([r.m EXCEPT !.objs[r.out].sampler = "NEAREST"],
               [featureTableId |-> gltfFeatureIdTexture.featureTable,
                channel |-> gltfFeatureIdTexture.featureIds.channels,
                texture |-> r.out])
      : r \in {loadTexture(m, gltf, gltfFeatureIdTexture.featureIds.texture)} })

RECURSIVE loadFeatureIdTextures(_, _, _, _)
loadFeatureIdTextures(m, gltf, featureIdTextures, i) ==
    IF i > Len(featureIdTextures) THEN Out(m, <<>>)
    ELSE Only({
           IF r.m.thrown THEN Out(r.m, <<>>)
           ELSE Only({
                  Out(rest.m, <<r.out>> \o rest.out)
                  : rest \in {loadFeatureIdTextures(r.m, gltf, featureIdTextures, i + 1)} })
           : r \in {loadFeatureIdTexture(m, gltf, featureIdTextures[i])} })

loadPrimitive(m, gltf, gltfPrimitive, morphWeights) ==
    Only({ Only({ Only({ Only({ Only({
      Out(r5.m, [material |-> r1.out, attributes |-> r2.out,
                 morphTargets |-> r3.out, indices |-> r4.out,
                 morphWeights |-> IF Len(gltfPrimitive.targets) > 0
                                  THEN primitiveMorphWeights(morphWeights,
                                                             Len(gltfPrimitive.targets))
                                  ELSE NoWeights,
                 featureIdAttributes |->
                    IF gltfPrimitive.featureMetadata.defined
                    THEN loadFeatureIdAttributes(
                           gltfPrimitive.featureMetadata.featureIdAttributes)
                    ELSE <<>>,
                 featureIdTextures |-> r5.out])
      : r5 \in {IF gltfPrimitive.featureMetadata.defined
                THEN loadFeatureIdTextures(
                       r4.m, gltf, gltfPrimitive.featureMetadata.featureIdTextures, 1)
                ELSE Out(r4.m, <<>>)} })
      : r4 \in {IF gltfPrimitive.indices # 0
                THEN loadIndices(r3.m, gltf, gltfPrimitive.indices, gltfPrimitive.draco)
                ELSE Out(r3.m, 0)} })
      : r3 \in {loadMorphTargets(r2.m, gltf, gltfPrimitive.targets, 1)} })
      : r2 \in {loadAttributes(r1.m, gltf, gltfPrimitive.attributes,
                               gltfPrimitive.draco, 1)} })
      : r1 \in {IF gltfPrimitive.material # 0
                THEN loadMaterial(m, gltf, gltf.materials[gltfPrimitive.material])
                ELSE Out(m, NoMaterial)} })

RECURSIVE loadPrimitives(_, _, _, _, _)
loadPrimitives(m, gltf, primitives, morphWeights, i) ==
    IF i > Len(primitives) THEN Out(m, <<>>)
    ELSE Only({
           IF r.m.thrown THEN Out(r.m, <<>>)
           ELSE Only({
                  Out(rest.m, <<r.out>> \o rest.out)
                  : rest \in {loadPrimitives(r.m, gltf, primitives, morphWeights, i + 1)} })
           : r \in {loadPrimitive(m, gltf, primitives[i], morphWeights)} })

\* new Skin(), and a node's skin when it has none.
NewSkin == [defined |-> TRUE, joints |-> <<>>, inverseBindMatrices |-> 0]

NoSkin == [defined |-> FALSE, joints |-> <<>>, inverseBindMatrices |-> <<>>]

\* fromArray: undefined stays undefined, a Number array is returned as it
\* is, any other type is unpacked from the array.
fromArray(MathType, values) ==
    IF ~values.defined THEN NoValue
    ELSE IF MathType = "Number" THEN values
    ELSE [defined |-> TRUE, type |-> MathType, values |-> values.values]

\* node.instances of a node without instances.
NoInstances == [defined |-> FALSE, attributes |-> <<>>, featureIdAttributes |-> <<>>]

\* new Node() with the four transform fields set from the document node;
\* extensions is the instancing extension as found on the new Node, which
\* has none.
NewNode(gltfNode) ==
    [primitives |-> <<>>, children |-> <<>>, skin |-> NoSkin,
     extensions |-> NoInstancing, instances |-> NoInstances,
     matrix |-> fromArray("Matrix4", gltfNode.matrix),
     translation |-> fromArray("Cartesian3", gltfNode.translation),
     rotation |-> fromArray("Quaternion", gltfNode.rotation),
     scale |-> fromArray("Cartesian3", gltfNode.scale)]

loadBufferView(m, gltf, bufferViewId) ==
    [CacheAcquire(m, BufferViewKey(bufferViewId))
       EXCEPT !.loaders = Append(@, BufferViewKey(bufferViewId))]

\* An instanced attribute gets a vertex buffer when the context supports
\* instanced arrays, and otherwise the typed array of its buffer view.
loadInstancedAttribute(m, gltf, accessorId, semantic) ==
    Only({
      IF gltf.accessors[accessorId].bufferView = 0
      THEN Out(m1, Len(m1.objs))
      ELSE IF m.frameState.instancedArrays
      THEN Only({
             Out(Then(m2, Continuation("attribute", m2.loaders[Len(m2.loaders)],
                                       Len(m2.objs), semantic, NoDraco)),
                 Len(m2.objs))
             : m2 \in {loadVertexBuffer(m1, gltf, accessorId, semantic, NoDraco)} })
      ELSE Only({
             Out(Then(m2, Continuation("typedArray", m2.loaders[Len(m2.loaders)],
                                       Len(m2.objs), semantic, NoDraco)),
                 Len(m2.objs))
             : m2 \in {loadBufferView(m1, gltf, gltf.accessors[accessorId].bufferView)} })
      : m1 \in {[m EXCEPT !.objs = Append(@, createAttribute(gltf, accessorId, semantic))]} })

RECURSIVE loadInstancedAttributes(_, _, _, _)
loadInstancedAttributes(m, gltf, attributes, i) ==
    IF i > Len(attributes) THEN Out(m, <<>>)
    ELSE Only({ Only({
           Out(rest.m, <<r.out>> \o rest.out)
           : rest \in {loadInstancedAttributes(r.m, gltf, attributes, i + 1)} })
           : r \in {loadInstancedAttribute(m, gltf, attributes[i].accessor,
                                           attributes[i].semantic)} })

loadInstances(m, gltf, instancingExtension) ==
    Only({
      Out(r.m, [defined |-> TRUE, attributes |-> r.out,
                featureIdAttributes |->
                   IF instancingExtension.featureMetadata.defined
                   THEN loadFeatureIdAttributes(
                          instancingExtension.featureMetadata.featureIdAttributes)
                   ELSE <<>>])
      : r \in {loadInstancedAttributes(m, gltf, instancingExtension.attributes, 1)} })

\* The instancing extension is looked up on node, the new Node, and not on
\* gltfNode.
loadNode(m, gltf, gltfNode) ==
    Only({
      IF r.m.thrown THEN r
      ELSE IF r.out.extensions.defined
      THEN Only({ Out(q.m, [r.out EXCEPT !.instances = q.out])
                  : q \in {loadInstances(r.m, gltf, r.out.extensions)} })
      ELSE r
      : r \in {IF gltfNode.mesh # 0
               THEN Only({ Out(p.m, [NewNode(gltfNode) EXCEPT !.primitives = p.out])
                           : p \in {loadPrimitives(
                                      m, gltf, gltf.meshes[gltfNode.mesh].primitives,
                                      defaultValue(gltfNode.weights,
                                                   gltf.meshes[gltfNode.mesh].weights),
                                      1)} })
               ELSE Out(m, NewNode(gltfNode))} })

RECURSIVE loadNodeTable(_, _, _)
loadNodeTable(m, gltf, i) ==
    IF i > Len(gltf.nodes) THEN Out(m, <<>>)
    ELSE Only({
           IF r.m.thrown THEN Out(r.m, <<>>)
           ELSE Only({
                  Out(rest.m, <<r.out>> \o rest.out)
                  : rest \in {loadNodeTable(r.m, gltf, i + 1)} })
           : r \in {loadNode(m, gltf, gltf.nodes[i])} })

\* loadSkin fills a new Skin: the joints are the node-table entries of the
\* joint ids; the accessor id of the inverse bind matrices is looked up on
\* the new Skin, where it is undefined, so they are one identity matrix per
\* joint.  The function has no return statement: its value is undefined.
loadSkin(m, gltf, gltfSkin, nodes) ==
    Only({ Out(IF NewSkin.inverseBindMatrices # 0
               THEN loadBufferView(m, gltf,
                      gltf.accessors[NewSkin.inverseBindMatrices].bufferView)
               ELSE m,
               NoSkin)
           : skin \in {[NewSkin EXCEPT
                          !.joints = gltfSkin.joints,
                          !.inverseBindMatrices =
                             [i \in 1..Len(gltfSkin.joints) |-> "IDENTITY"]]} })

\* for (i ...) if (defined(skinId)) nodes[i].skin = loadSkin(...)
RECURSIVE loadSkins(_, _, _, _)
loadSkins(m, gltf, nodes, i) ==
    IF i > Len(nodes) THEN Out(m, nodes)
    ELSE IF gltf.nodes[i].skin = 0 THEN loadSkins(m, gltf, nodes, i + 1)
    ELSE Only({ loadSkins(r.m, gltf, [nodes EXCEPT ![i].skin = r.out], i + 1)
                : r \in {loadSkin(m, gltf, gltf.skins[gltf.nodes[i].skin], nodes)} })

\* The node table, then each node's children as references into it, then
\* the skins.
loadNodes(m, gltf) ==
    Only({ IF r.m.thrown THEN r
           ELSE loadSkins(r.m, gltf,
                          [i \in 1..Len(r.out) |->
                             [r.out[i] EXCEPT !.children = gltf.nodes[i].children]], 1)
           : r \in {loadNodeTable(m, gltf, 1)} })

\* The objects of a primitive, and of the whole graph, that may hold a handle.
PrimitiveObjects(p) ==
    Range(p.attributes)
      \cup UNION {Range(p.morphTargets[t]) : t \in 1..Len(p.morphTargets)}
      \cup ({p.indices, p.material.baseColorTexture, p.material.metallicRoughnessTexture,
             p.material.emissiveTexture, p.material.normalTexture,
             p.material.occlusionTexture} \ {0})

GraphObjects(c) ==
    UNION {UNION {PrimitiveObjects(c.nodes[n].primitives[p]) :
                    p \in 1..Len(c.nodes[n].primitives)} :
             n \in 1..Len(c.nodes)}

\* ------------------------------------------------------------------------
\* unload, handleError and the continuations of load() and parse()
\* ------------------------------------------------------------------------

SetState(m, newState) ==
    [m EXCEPT !.state = newState, !.stateHistory = Append(@, newState)]

\* References the loader still holds: the document loader and its sub-loaders.
Held(m) == Len(m.loaders) + (IF m.gltfJsonLoader THEN 1 ELSE 0)

RECURSIVE unloadLoaders(_, _, _)
unloadLoaders(m, loaders, i) ==
    IF i > Len(loaders) THEN m
    ELSE Only({ unloadLoaders(m1, loaders, i + 1) : m1 \in {LoaderUnload(m, loaders[i])} })

\* unload that leaves this._loaders as it was.
unload_KeepsLoaders(m) ==
    Only({ unloadLoaders(m1, m1.loaders, 1)
           : m1 \in {IF m.gltfJsonLoader
                     THEN [CacheRelease(m, DocKey) EXCEPT !.gltfJsonLoader = FALSE]
                     ELSE m} })

\* GltfLoader.prototype.unload
unload(m) ==
    Only({ Only({ [m2 EXCEPT !.loaders = <<>>]
             : m2 \in {unloadLoaders(m1, m1.loaders, 1)} })
             : m1 \in {IF m.gltfJsonLoader
                       THEN [CacheRelease(m, DocKey) EXCEPT !.gltfJsonLoader = FALSE]
                       ELSE m} })

\* ResourceLoader.getError: the message with the original error as its cause.
getError(errorMessage, error) == [message |-> errorMessage, cause |-> error]

\* The objects a sub-loader was spawned for that have no handle yet.
Unpopulated(m) ==
    {m.conts[i].obj : i \in {j \in 1..Len(m.conts) :
                               /\ m.conts[j].kind # "all"
                               /\ m.objs[m.conts[j].obj].buffer = NoKey}}

PendingPromise ==
    [status |-> "pending", message |-> "", cause |-> NoKey, held |-> 0,
     unpopulated |-> {}]

\* deferred.resolve / deferred.reject: only a pending promise settles.  A
\* continuation of the promise runs at once: held and unpopulated are what
\* it finds the loader holding and the graph missing.
Resolve(m) ==
    IF m.promise.status # "pending" THEN m
    ELSE [m EXCEPT !.promise = [PendingPromise EXCEPT !.status = "resolved",
                                                      !.held = Held(m),
                                                      !.unpopulated = Unpopulated(m)]]

Reject(m, error) ==
    IF m.promise.status # "pending" THEN m
    ELSE [m EXCEPT !.promise = [status |-> "rejected", message |-> error.message,
                                cause |-> error.cause, held |-> Held(m),
                                unpopulated |-> Unpopulated(m)]]

\* handleError that rejects without unloading first.
handleError_NoUnload(m, error) ==
    Only({ Reject(m1, getError("Failed to load glTF", error))
           : m1 \in {[SetState(m, FAILED) EXCEPT !.errorsHandled = @ + 1]} })

handleError(m, error) ==
    Only({ Only({ Reject(m2, getError("Failed to load glTF", error))
             : m2 \in {[SetState(m1, FAILED) EXCEPT !.errorsHandled = @ + 1]} })
             : m1 \in {unload(m)} })

\* gltfJsonLoader.promise.then(...).otherwise(...)
onDocumentResolved(m) ==
    IF m.destroyed THEN m ELSE SetState(m, PROCESSING)

\* load() without the otherwise(...) continuation of the document promise.
onDocumentRejected_Dropped(m, error) == m

onDocumentRejected(m, error) ==
    IF m.destroyed THEN m ELSE handleError(m, error)

\* when.all(promises).then(...).otherwise(...)
onAllResolved(m) ==
    IF m.destroyed THEN m
    ELSE Only({ Resolve(m1) : m1 \in {SetState(m, READY)} })

\* when.all(...) without its otherwise(...) continuation.
onAllRejected_Dropped(m, error) == m

onAllRejected(m, error) ==
    IF m.destroyed THEN m ELSE handleError(m, error)

AllSettled(m) == [m EXCEPT !.all.settled = TRUE]

\* when.all: told that promise k settled.  It rejects on the first rejection
\* and resolves once every promise of its array has resolved.
AllNotify(m, k, ok) ==
    IF m.all.settled \/ k \notin Range(m.all.promises) THEN m
    ELSE IF ~ok
    THEN Only({ onAllRejected(m1, k) : m1 \in {AllSettled(m)} })
    ELSE IF \A p \in Range(m.all.promises) : Status(m, p) = "ready"
    THEN Only({ onAllResolved(m1) : m1 \in {AllSettled(m)} })
    ELSE m

FirstFailed(m, promises) ==
    Only({i \in 1..Len(promises) :
            /\ Status(m, promises[i]) = "failed"
            /\ \A j \in 1..(i - 1) : Status(m, promises[j]) # "failed"})

\* when.all(promises) over an array of which some promises have settled
\* already: the first rejected one in array order rejects it at once.
whenAll(m, promises) ==
    Only({
      IF \E i \in 1..Len(promises) : Status(m, promises[i]) = "failed"
      THEN Only({ onAllRejected(m2, promises[FirstFailed(m, promises)])
                  : m2 \in {AllSettled(m1)} })
      ELSE IF \A i \in 1..Len(promises) : Status(m, promises[i]) = "ready"
      THEN Only({ onAllResolved(m2) : m2 \in {AllSettled(m1)} })
      ELSE m1
      : m1 \in {[m EXCEPT
                   !.all = [registered |-> TRUE, promises |-> promises,
                            settled |-> FALSE],
                   !.conts = Append(@, Continuation("all", NoKey, 0, "", NoDraco))]} })

\* The continuations registered on promise k, run in registration order.
RECURSIVE RunContinuations(_, _, _, _)
RunContinuations(m, k, ok, i) ==
    IF i > Len(m.conts) THEN m
    ELSE Only({ RunContinuations(m1, k, ok, i + 1)
                : m1 \in {IF m.conts[i].kind = "all" THEN AllNotify(m, k, ok)
                          ELSE IF m.conts[i].loader = k /\ ok THEN Populate(m, m.conts[i])
                          ELSE m} })

\* ------------------------------------------------------------------------
\* parse, process, load
\* ------------------------------------------------------------------------

\* new GltfFeatureMetadataLoader(...).load(), pushed to the loaders.
loadFeatureMetadata(m) ==
    [StartLoader(m, FeatureMetadataKey(m.parseCount)) EXCEPT
       !.loaders = Append(@, FeatureMetadataKey(m.parseCount))]

\* loader._components before parse, and new Components() with its nodes
\* set; featureMetadata is set by no statement that parse reaches.
NoComponents ==
    [defined |-> FALSE, scene |-> [nodes |-> <<>>], nodes |-> <<>>,
     featureMetadata |-> NoKey]

NewComponents(scene, nodes) ==
    [defined |-> TRUE, scene |-> scene, nodes |-> nodes, featureMetadata |-> NoKey]

\* The keys that loadScene looks up in the node table: the node ids of the
\* default scene, or, for a document that names none, the entries of
\* gltf.nodes themselves, which are node objects and not ids.
getSceneNodeIds(gltf) ==
    IF gltf.scene # 0
    THEN [i \in 1..Len(gltf.scenes[gltf.scene].nodes) |->
            [isId |-> TRUE, id |-> gltf.scenes[gltf.scene].nodes[i]]]
    ELSE [i \in 1..Len(gltf.nodes) |-> [isId |-> FALSE, id |-> i]]

\* nodes[key]: the entry of the node table for a node id, undefined (0) for
\* any other key.
NodeLookup(nodes, key) ==
    IF key.isId /\ key.id \in 1..Len(nodes) THEN key.id ELSE 0

loadScene(gltf, nodes) ==
    [nodes |-> [i \in 1..Len(getSceneNodeIds(gltf)) |->
                  NodeLookup(nodes, getSceneNodeIds(gltf)[i])]]

\* parse gathering the promises of all loaders but the last one.
parse_SkipsLast(m, gltf) ==
    Only({
      IF r.m.thrown THEN r.m
      ELSE Only({
      IF gltf.extFeatureMetadata
      THEN [loadFeatureMetadata(m1) EXCEPT !.thrown = TRUE]
      ELSE whenAll(m1, SubSeq(m1.loaders, 1, Len(m1.loaders) - 1))
      : m1 \in {[r.m EXCEPT !.components = NewComponents(loadScene(gltf, r.out), r.out)]} })
      : r \in {loadNodes([m EXCEPT !.parseCount = @ + 1], gltf)} })

\* An exception thrown while the nodes are loaded ends parse before the
\* components are set.  featureMetadataLoader.then is called on the loader,
\* which has a promise property and no then method: the call throws and
\* parse ends there, before when.all is reached.
parse(m, gltf) ==
    Only({
      IF r.m.thrown THEN r.m
      ELSE Only({
      IF gltf.extFeatureMetadata
      THEN [loadFeatureMetadata(m1) EXCEPT !.thrown = TRUE]
      ELSE whenAll(m1, m1.loaders)
      : m1 \in {[r.m EXCEPT !.components = NewComponents(loadScene(gltf, r.out), r.out)]} })
      : r \in {loadNodes([m EXCEPT !.parseCount = @ + 1], gltf)} })

\* FeatureDetection.supportsWebP: initialize() starts the detection.
initializeWebP(m) ==
    IF m.webP = "uninitialized" THEN [m EXCEPT !.webP = "detecting"] ELSE m

\* The loop of process, running from the last loader to the first.
forwardProcess_Reversed(m) ==
    [m EXCEPT !.ticked = [i \in 1..Len(m.loaders) |-> m.loaders[Len(m.loaders) + 1 - i]]]

\* The loop of process over this._loaders.
forwardProcess(m) == [m EXCEPT !.ticked = m.loaders]

\* process without the early return on the state.
process_NoStateGuard(m, gltf) ==
    IF m.webP # "initialized" THEN [initializeWebP(m) EXCEPT !.ticked = <<>>]
    ELSE IF ~m.gltfJsonLoader THEN forwardProcess(m)
    ELSE Only({
           IF m1.thrown
           THEN [m1 EXCEPT !.thrown = FALSE, !.ticked = <<>>]
           ELSE Only({ forwardProcess(m2)
                       : m2 \in {[CacheRelease(m1, DocKey) EXCEPT
                                    !.gltfJsonLoader = FALSE]} })
           : m1 \in {parse(m, gltf)} })

\* process without the check of FeatureDetection.supportsWebP.initialized.
process_NoWebPCheck(m, gltf) ==
    IF m.state # PROCESSING THEN [m EXCEPT !.ticked = <<>>]
    ELSE IF ~m.gltfJsonLoader THEN forwardProcess(m)
    ELSE Only({
           IF m1.thrown
           THEN [m1 EXCEPT !.thrown = FALSE, !.ticked = <<>>]
           ELSE Only({ forwardProcess(m2)
                       : m2 \in {[CacheRelease(m1, DocKey) EXCEPT
                                    !.gltfJsonLoader = FALSE]} })
           : m1 \in {parse(m, gltf)} })

\* GltfLoader.prototype.process.  An exception thrown by parse leaves
\* process before the document loader is released; ticked is the sub-loaders
\* process was forwarded to.
process(m, gltf) ==
    IF m.state # PROCESSING THEN [m EXCEPT !.ticked = <<>>]
    ELSE IF m.webP # "initialized" THEN [initializeWebP(m) EXCEPT !.ticked = <<>>]
    ELSE IF ~m.gltfJsonLoader THEN forwardProcess(m)
    ELSE Only({
           IF m1.thrown
           THEN [m1 EXCEPT !.thrown = FALSE, !.ticked = <<>>]
           ELSE Only({ forwardProcess(m2)
                       : m2 \in {[CacheRelease(m1, DocKey) EXCEPT
                                    !.gltfJsonLoader = FALSE]} })
           : m1 \in {parse(m, gltf)} })

\* load that leaves _state as it was instead of setting LOADING.
load_SkipsLoading(m) ==
    Only({
      IF Status(m, DocKey) = "ready" THEN onDocumentResolved(m1)
      ELSE IF Status(m, DocKey) = "failed" THEN onDocumentRejected(m1, DocKey)
      ELSE m1
      : m1 \in {[CacheAcquire(m, DocKey) EXCEPT !.gltfJsonLoader = TRUE,
                                                !.loadCalled = TRUE]} })

\* GltfLoader.prototype.load
load(m) ==
    Only({
      IF Status(m, DocKey) = "ready" THEN onDocumentResolved(m1)
      ELSE IF Status(m, DocKey) = "failed" THEN onDocumentRejected(m1, DocKey)
      ELSE m1
      : m1 \in {SetState([CacheAcquire(m, DocKey) EXCEPT !.gltfJsonLoader = TRUE,
                                                         !.loadCalled = TRUE],
                         LOADING)} })

\* ResourceLoader.prototype.destroy: unload, then the object is destroyed.
destroy(m) == [unload(m) EXCEPT !.destroyed = TRUE]

\* The promise of loader k settles: its continuations run.
settle(m, k, ok) ==
    Only({ Only({ RunContinuations(m2, k, ok, 1)
             : m2 \in {IF k = DocKey /\ m1.loadCalled
                       THEN IF ok THEN onDocumentResolved(m1)
                            ELSE onDocumentRejected(m1, k)
                       ELSE m1} })
             : m1 \in {[m EXCEPT !.sub[k].status = IF ok THEN "ready" ELSE "failed"]} })

\* Another user of the cache requests key k first.
otherAcquire(m, k) ==
    [m EXCEPT !.sub = m.sub @@ (k :> [status |-> "pending", refs |-> 1, unloads |-> 0])]

\* ------------------------------------------------------------------------
\* The state machine
\* ------------------------------------------------------------------------

VARIABLES gltf, state, stateHistory, gltfJsonLoader, loaders, components, objs,
          conts, all, promise, destroyed, sub, mine, parseCount, webP,
          loadCalled, errorsHandled, ticked, lastOp, incrementallyLoadTextures,
          typedArray

vars == <<gltf, state, stateHistory, gltfJsonLoader, loaders, components, objs,
          conts, all, promise, destroyed, sub, mine, parseCount, webP,
          loadCalled, errorsHandled, ticked, lastOp, incrementallyLoadTextures,
          typedArray>>

\* No call of getAccessorTypedArray: no source and no result.
NoTypedArray ==
    [called |-> FALSE, source |-> BufferViewTypedArray(0),
     result |-> [thrown |-> FALSE, array |-> <<>>]]

\* The state after new GltfLoader(options).
NewLoader ==
    [state |-> UNLOADED, stateHistory |-> <<UNLOADED>>, gltfJsonLoader |-> FALSE,
     loaders |-> <<>>, components |-> NoComponents,
     objs |-> <<>>, conts |-> <<>>,
     all |-> [registered |-> FALSE, promises |-> <<>>, settled |-> FALSE],
     promise |-> PendingPromise, destroyed |-> FALSE,
     sub |-> <<>>, mine |-> <<>>, parseCount |-> 0, webP |-> "uninitialized",
     loadCalled |-> FALSE, errorsHandled |-> 0, ticked |-> <<>>, thrown |-> FALSE,
     frameState |-> [instancedArrays |-> FALSE]]

M ==
    [state |-> state, stateHistory |-> stateHistory, gltfJsonLoader |-> gltfJsonLoader,
     loaders |-> loaders, components |-> components, objs |-> objs, conts |-> conts,
     all |-> all, promise |-> promise, destroyed |-> destroyed, sub |-> sub,
     mine |-> mine, parseCount |-> parseCount, webP |-> webP,
     loadCalled |-> loadCalled, errorsHandled |-> errorsHandled, ticked |-> ticked,
     thrown |-> FALSE, frameState |-> NewLoader.frameState]

Commit(m, op) ==
    /\ state' = m.state
    /\ stateHistory' = m.stateHistory
    /\ gltfJsonLoader' = m.gltfJsonLoader
    /\ loaders' = m.loaders
    /\ components' = m.components
    /\ objs' = m.objs
    /\ conts' = m.conts
    /\ all' = m.all
    /\ promise' = m.promise
    /\ destroyed' = m.destroyed
    /\ sub' = m.sub
    /\ mine' = m.mine
    /\ parseCount' = m.parseCount
    /\ webP' = m.webP
    /\ loadCalled' = m.loadCalled
    /\ errorsHandled' = m.errorsHandled
    /\ ticked' = m.ticked
    /\ lastOp' = op
    /\ gltf' = gltf
    /\ incrementallyLoadTextures' = incrementallyLoadTextures
    /\ typedArray' = typedArray

\* The cache keys the document's assembly requests.
DocumentKeys(doc) == Range(loadNodes(NewLoader, doc).m.loaders)

Init ==
    /\ gltf \in Documents
    /\ webP \in {"uninitialized", "initialized"}
    /\ incrementallyLoadTextures \in BOOLEAN
    /\ state = NewLoader.state
    /\ stateHistory = NewLoader.stateHistory
    /\ gltfJsonLoader = NewLoader.gltfJsonLoader
    /\ loaders = NewLoader.loaders
    /\ components = NewLoader.components
    /\ objs = NewLoader.objs
    /\ conts = NewLoader.conts
    /\ all = NewLoader.all
    /\ promise = NewLoader.promise
    /\ destroyed = NewLoader.destroyed
    /\ sub = NewLoader.sub
    /\ mine = NewLoader.mine
    /\ parseCount = NewLoader.parseCount
    /\ loadCalled = NewLoader.loadCalled
    /\ errorsHandled = NewLoader.errorsHandled
    /\ ticked = NewLoader.ticked
    /\ lastOp = "new"
    /\ typedArray = NoTypedArray

\* load() is called once, on a loader that is not destroyed.
Load ==
    /\ ~loadCalled
    /\ ~destroyed
    /\ \E m \in {load(M)} : Commit(m, "load")

\* A tick, with the frameState of the caller: its context supports
\* instanced arrays or not.  parse runs again on every tick when it throws;
\* the model stops ticking such a loader after MaxParse runs.
Process ==
    /\ ~(state = PROCESSING /\ webP = "initialized" /\ gltfJsonLoader
           /\ parseCount >= MaxParse)
    /\ \E instancedArrays \in BOOLEAN :
          \E m \in {process([M EXCEPT !.frameState.instancedArrays = instancedArrays],
                            gltf)} :
             Commit(m, "process")

\* unload() may be called in every state, any number of times.
Unload ==
    \E m \in {unload(M)} :
       Commit(m, IF lastOp \in {"unload", "unload again"} THEN "unload again"
                 ELSE "unload")

Destroy ==
    /\ ~destroyed
    /\ \E m \in {destroy(M)} : Commit(m, "destroy")

\* A loader in the cache resolves or rejects.
Settle ==
    \E k \in DOMAIN sub, ok \in BOOLEAN :
       /\ sub[k].status = "pending"
       /\ \E m \in {settle(M, k, ok)} : Commit(m, "settle")

WebPDetected ==
    /\ webP = "detecting"
    /\ \E m \in {[M EXCEPT !.webP = "initialized"]} : Commit(m, "webp")

OtherAcquire ==
    \E k \in DocumentKeys(gltf) \cup {DocKey} :
       /\ k \notin DOMAIN sub
       /\ \E m \in {otherAcquire(M, k)} : Commit(m, "other")

Next ==
    \/ Load
    \/ Process
    \/ Unload
    \/ Destroy
    \/ Settle
    \/ WebPDetected
    \/ OtherAcquire

Spec == Init /\ [][Next]_vars

\* The caller contract of the tests: load() once, then process() on every
\* tick; unload() and destroy() are not called.  The caller keeps ticking,
\* the detection of WebP support completes, and every fetch settles.
LiveNext ==
    \/ Load
    \/ Process
    \/ Settle
    \/ WebPDetected
    \/ OtherAcquire

Fairness ==
    /\ WF_vars(Load)
    /\ WF_vars(Process)
    /\ WF_vars(Settle)
    /\ WF_vars(WebPDetected)

LiveSpec == Init /\ [][LiveNext]_vars /\ Fairness

\* getAccessorTypedArray on its own.  A document with one accessor in one
\* buffer view: count elements of type, starting offset components into the
\* buffer view, tightly packed (padding 0) or with padding components
\* between two elements.
TypedArrayDocument(type, componentType, count, offset, padding) ==
    [name |-> "TypedArray",
     nodes |-> <<>>,
     meshes |-> <<>>,
     accessors |-> <<Accessor(1, offset * SizeInBytes(componentType), type,
                              componentType, count)>>,
     bufferViews |-> <<[byteStride |->
                          IF padding = 0 THEN 0
                          ELSE SizeInBytes(componentType)
                                 * (NumberOfComponentsForType(type) + padding)]>>,
     materials |-> <<>>,
     textures |-> <<>>,
     skins |-> <<>>,
     extFeatureMetadata |-> FALSE,
     scene |-> 0,
     scenes |-> <<>>]

TypedArrayDocuments ==
    {TypedArrayDocument(type, componentType, count, offset, padding) :
       type \in {"SCALAR", "VEC2", "VEC3"},
       componentType \in {"UNSIGNED_BYTE", "UNSIGNED_SHORT"},
       count \in 1..MaxCount,
       offset \in 0..1,
       padding \in 0..MaxPadding}

\* The components from the start of the buffer view to the last component
\* of the accessor, and to the end of the view that getAccessorTypedArray
\* creates.
AccessorEnd(doc) ==
    (doc.accessors[1].byteOffset \div SizeInBytes(doc.accessors[1].componentType))
      + (doc.accessors[1].count - 1)
          * (getAccessorByteStride(doc, doc.accessors[1])
               \div SizeInBytes(doc.accessors[1].componentType))
      + NumberOfComponentsForType(doc.accessors[1].type)

ViewEnd(doc) ==
    (doc.accessors[1].byteOffset \div SizeInBytes(doc.accessors[1].componentType))
      + (getAccessorByteStride(doc, doc.accessors[1])
           \div SizeInBytes(doc.accessors[1].componentType))
          * (doc.accessors[1].count * NumberOfComponentsForType(doc.accessors[1].type))

\* The buffer ends with the accessor, or is long enough for the view.
TypedArrayInit ==
    /\ gltf \in TypedArrayDocuments
    /\ \E length \in {AccessorEnd(gltf), ViewEnd(gltf)} :
          typedArray = [NoTypedArray EXCEPT !.source = BufferViewTypedArray(length)]
    /\ webP = "initialized"
    /\ incrementallyLoadTextures = FALSE
    /\ state = NewLoader.state
    /\ stateHistory = NewLoader.stateHistory
    /\ gltfJsonLoader = NewLoader.gltfJsonLoader
    /\ loaders = NewLoader.loaders
    /\ components = NewLoader.components
    /\ objs = NewLoader.objs
    /\ conts = NewLoader.conts
    /\ all = NewLoader.all
    /\ promise = NewLoader.promise
    /\ destroyed = NewLoader.destroyed
    /\ sub = NewLoader.sub
    /\ mine = NewLoader.mine
    /\ parseCount = NewLoader.parseCount
    /\ loadCalled = NewLoader.loadCalled
    /\ errorsHandled = NewLoader.errorsHandled
    /\ ticked = NewLoader.ticked
    /\ lastOp = "new"

GetAccessorTypedArray ==
    /\ ~typedArray.called
    /\ typedArray' = [typedArray EXCEPT
                        !.called = TRUE,
                        !.result = getAccessorTypedArray(gltf, gltf.accessors[1],
                                                         typedArray.source)]
    /\ lastOp' = "getAccessorTypedArray"
    /\ UNCHANGED <<gltf, state, stateHistory, gltfJsonLoader, loaders, components,
                   objs, conts, all, promise, destroyed, sub, mine, parseCount, webP,
                   loadCalled, errorsHandled, ticked, incrementallyLoadTextures>>

TypedArrayNext == GetAccessorTypedArray

TypedArraySpec == TypedArrayInit /\ [][TypedArrayNext]_vars

\* ------------------------------------------------------------------------
\* Claims
\* ------------------------------------------------------------------------

Promises == Range(all.promises)

AllResolved == \A p \in Promises : Status(M, p) = "ready"

SomeRejected == \E p \in Promises : Status(M, p) = "failed"

\* C1: completion atomicity.  Once parse has gathered the promises of the
\* sub-loaders it pushed, a loader that is not destroyed is READY with its
\* promise resolved exactly when every one of them has resolved, and FAILED
\* with its promise rejected exactly when at least one of them has rejected,
\* whatever the order in which they settle.
C1_CompletionAtomicity ==
    (all.registered /\ ~destroyed) =>
       /\ (state = READY /\ promise.status = "resolved") <=> AllResolved
       /\ (state = FAILED /\ promise.status = "rejected") <=> SomeRejected
       /\ state \in {PROCESSING, READY, FAILED}
       /\ (state = PROCESSING) <=> (promise.status = "pending")

\* A sub-loader resolved and then another one rejected: the load failed.
C1_Witness ==
    /\ all.registered /\ ~destroyed
    /\ Cardinality(Promises) >= 2
    /\ state = FAILED /\ promise.status = "rejected"
    /\ \E p \in Promises : Status(M, p) = "ready"

AllowedEdges ==
    {<<UNLOADED, LOADING>>, <<LOADING, PROCESSING>>, <<LOADING, FAILED>>,
     <<PROCESSING, READY>>, <<PROCESSING, FAILED>>}

\* C2: with load() called once, every assignment to _state follows one of
\* the edges Unloaded->Loading, Loading->Processing, Loading->Failed,
\* Processing->Ready, Processing->Failed, over every interleaving of
\* process, unload, document fetch and sub-loader completions; no edge
\* leaves Ready or Failed, so a terminal state never changes.
C2_StateEdges ==
    /\ state = stateHistory[Len(stateHistory)]
    /\ \A i \in 1..(Len(stateHistory) - 1) :
          <<stateHistory[i], stateHistory[i + 1]>> \in AllowedEdges

\* READY was reached along the edges, and unload() was called afterwards.
C2_Witness ==
    /\ stateHistory = <<UNLOADED, LOADING, PROCESSING, READY>>
    /\ lastOp = "unload"
    /\ Len(all.promises) >= 2

\* The promises of when.all that reject in this step.
RejectedNow ==
    {k \in Promises : sub[k].status = "pending" /\ sub'[k].status = "failed"}

\* C3: fail-fast.  When the first sub-loader rejects while the loader is
\* PROCESSING (and not destroyed), the loader has unloaded everything by the
\* time it rejects its promise, it ends FAILED, and the rejection carries the
\* cause of the sub-loader that failed; once the promise is rejected, a later
\* failure unloads nothing and rejects nothing.
C3_FailFast ==
    [][/\ (/\ state = PROCESSING /\ all.registered /\ ~all.settled /\ ~destroyed
           /\ RejectedNow # {})
          => /\ state' = FAILED
             /\ promise'.status = "rejected"
             /\ promise'.cause \in RejectedNow
             /\ promise'.held = 0
             /\ loaders' = <<>> /\ ~gltfJsonLoader'
             /\ \A i \in 1..Len(loaders) : sub'[loaders[i]].unloads > sub[loaders[i]].unloads
             /\ errorsHandled' = errorsHandled + 1
       /\ (promise.status = "rejected" /\ lastOp' = "settle")
          => /\ promise' = promise
             /\ state' = state
             /\ errorsHandled' = errorsHandled
             /\ \A k \in DOMAIN sub : sub'[k].unloads = sub[k].unloads
      ]_vars

\* The load failed on one sub-loader, and a second one has failed since.
C3_Witness ==
    /\ all.registered /\ ~destroyed
    /\ promise.status = "rejected"
    /\ Cardinality({p \in Promises : Status(M, p) = "failed"}) >= 2
    /\ errorsHandled = 1
    /\ \E p \in Promises : sub[p].unloads > 0

\* C4: acquire/release pairing.  After unload() returns, this loader holds
\* no cache reference for any key: every reference it acquired has been
\* released through the cache exactly once.
C4_AcquireReleasePairing ==
    (lastOp \in {"unload", "unload again", "destroy"}) =>
       \A k \in DOMAIN mine : mine[k] = 0

\* C5: the document loader acquired by load() is released through the cache
\* exactly once: it is never released twice, the loader holds it exactly as
\* long as _gltfJsonLoader is set, and it is not held once the loader is
\* READY, FAILED or unloaded.
C5_DocumentReleasedOnce ==
    /\ Mine(M, DocKey) \in {0, 1}
    /\ gltfJsonLoader <=> (Mine(M, DocKey) = 1)
    /\ (state \in {READY, FAILED} \/ lastOp \in {"unload", "unload again", "destroy"})
          => Mine(M, DocKey) = 0

\* C6: unload() is idempotent.  An unload() that directly follows an
\* unload() releases nothing in the cache, unloads no sub-loader and changes
\* no field of the loader, in every state.
C6_UnloadIdempotent ==
    [][lastOp' = "unload again"
         => UNCHANGED <<gltf, state, stateHistory, gltfJsonLoader, loaders,
                        components, objs, conts, all, promise, destroyed, sub,
                        mine, parseCount, webP, loadCalled, errorsHandled,
                        ticked>>]_vars

\* unload() was called twice in a row after assembly, with sub-loaders
\* still pending.
C6_Witness ==
    /\ lastOp = "unload again"
    /\ state = PROCESSING /\ all.registered
    /\ \E p \in Promises : sub[p].unloads = 1 /\ sub[p].status = "pending"

\* C7: cancellation.  Once the loader is destroyed, no step - no document
\* or sub-loader continuation, nor the continuation of when.all - changes
\* its state, settles its promise or writes the scene graph.
C7_Cancellation ==
    [][destroyed => UNCHANGED <<state, stateHistory, promise, components, objs>>]_vars

\* The loader was destroyed after assembly; every sub-loader has resolved
\* since, and the loader is still PROCESSING with an empty graph.
C7_Witness ==
    /\ destroyed /\ all.registered /\ Promises # {}
    /\ AllResolved
    /\ state = PROCESSING /\ promise.status = "pending"
    /\ \E i \in 1..Len(objs) : objs[i].buffer = NoKey

\* C8: whenever the loader is READY, every attribute, indices and texture a
\* sub-loader was spawned for has its handle set, and it had it already when
\* the continuation of when.all resolved the promise.
C8_ReadyPopulated ==
    /\ state = READY => Unpopulated(M) = {}
    /\ promise.status = "resolved" => promise.unpopulated = {}

\* READY with several populated objects, two of them sharing one buffer.
C8_Witness ==
    /\ state = READY /\ promise.status = "resolved"
    /\ Len(objs) >= 3
    /\ \E i, j \in 1..Len(objs) : i # j /\ objs[i].buffer = objs[j].buffer
    /\ \A i \in 1..Len(objs) : objs[i].buffer # NoKey

\* C9: a graph with missing buffers is never exposed: whenever components
\* or the promise exposes a graph it is fully populated, and components
\* exposes none while the loader is PROCESSING or FAILED.
C9_NoPartialGraph ==
    /\ components.defined => Unpopulated(M) = {}
    /\ state \in {PROCESSING, FAILED} => ~components.defined

\* C10: process() outside PROCESSING is a no-op: no assembly, nothing
\* forwarded to a sub-loader, nothing acquired or released, no change of
\* the state, the graph or any other field.
C10_ProcessNoOp ==
    [][(lastOp' = "process" /\ state # PROCESSING)
         => /\ ticked' = <<>>
            /\ UNCHANGED <<gltf, state, stateHistory, gltfJsonLoader, loaders,
                           components, objs, conts, all, promise, destroyed,
                           sub, mine, parseCount, webP, loadCalled,
                           errorsHandled>>]_vars

\* process() was called on a READY loader whose sub-loaders are still there.
C10_Witness ==
    /\ lastOp = "process"
    /\ state = READY
    /\ loaders # <<>>
    /\ ticked = <<>>

\* The document loader's promise rejects in this step: either it settles
\* while the loader is LOADING, or load() finds it rejected already.
DocumentRejectedNow ==
    /\ ~destroyed
    /\ DocKey \in DOMAIN sub' /\ sub'[DocKey].status = "failed"
    /\ \/ lastOp' = "load"
       \/ /\ lastOp' = "settle" /\ state = LOADING
          /\ sub[DocKey].status = "pending"

\* C11: document-fetch failure.  When the document loader's promise rejects
\* while the loader is LOADING and not destroyed, the loader no longer holds
\* the document loader, it is FAILED without ever having been PROCESSING, and
\* its promise is rejected with "Failed to load glTF" wrapping the document
\* loader's error as the cause.
C11_DocumentFetchFailure ==
    [][DocumentRejectedNow
         => /\ state' = FAILED
            /\ ~gltfJsonLoader' /\ mine'[DocKey] = 0
            /\ PROCESSING \notin Range(stateHistory')
            /\ promise'.status = "rejected"
            /\ promise'.message = "Failed to load glTF"
            /\ promise'.cause = DocKey
            /\ promise'.held = 0]_vars

\* The document fetch failed while LOADING.
C11_Witness ==
    /\ stateHistory = <<UNLOADED, LOADING, FAILED>>
    /\ lastOp = "settle"
    /\ Status(M, DocKey) = "failed"
    /\ promise.status = "rejected" /\ promise.cause = DocKey
    /\ Mine(M, DocKey) = 0

\* C12: capability deferral.  A process() in PROCESSING while WebP detection
\* is not initialized assembles nothing, spawns and ticks no sub-loader and
\* keeps the document loader held (it only starts the detection); a
\* process() in PROCESSING with the detection initialized and the document
\* loader held runs the assembly, which sets the components unless building
\* the nodes throws (FeatureIdTextureNoImage).
C12_CapabilityDeferral ==
    [][(lastOp' = "process" /\ state = PROCESSING)
         => /\ (webP # "initialized")
                => /\ UNCHANGED <<gltf, state, stateHistory, gltfJsonLoader,
                                  loaders, components, objs, conts, all, promise,
                                  destroyed, sub, mine, parseCount, loadCalled,
                                  errorsHandled>>
                   /\ ticked' = <<>>
                   /\ webP' = "detecting"
            /\ (webP = "initialized" /\ gltfJsonLoader)
                => /\ parseCount' = parseCount + 1
                   /\ (gltf.name # "FeatureIdTextureNoImage") => components'.defined]_vars

\* A tick was deferred: PROCESSING, detection started, nothing assembled and
\* the document loader still held.
C12_Witness ==
    /\ lastOp = "process"
    /\ state = PROCESSING
    /\ webP = "detecting"
    /\ gltfJsonLoader /\ Mine(M, DocKey) = 1
    /\ parseCount = 0 /\ ~components.defined /\ loaders = <<>>

\* C13: one-time assembly.  Over any sequence of process() calls parse runs
\* at most once, for every document.
C13_OneTimeAssembly ==
    parseCount <= 1

CreationOrder == loadNodes(NewLoader, gltf).m.loaders

\* C15: a process() tick in PROCESSING after the assembly forwards process
\* to every sub-loader the loader still holds, in the order in which the
\* assembly created them.
C15_TickOrder ==
    [][(lastOp' = "process" /\ state = PROCESSING /\ webP = "initialized"
          /\ ~gltfJsonLoader)
         => /\ ticked' = loaders
            /\ loaders \in {<<>>, CreationOrder}]_vars

\* A tick after assembly forwarded process to several sub-loaders.
C15_Witness ==
    /\ lastOp = "process"
    /\ state = PROCESSING /\ all.registered /\ ~gltfJsonLoader
    /\ Len(ticked) >= 3
    /\ ticked = loaders

\* C16: the scene graph is immutable once the loader is READY or FAILED: no
\* later step (a sub-loader settling, process(), unload()) writes a field
\* of an object of the graph or replaces the graph.
C16_ImmutableAfterTerminal ==
    [][(state = READY \/ state = FAILED) => UNCHANGED <<objs, components>>]_vars

TexturePromises == {p \in Promises : p[1] = "texture"}

\* C17: with incrementallyLoadTextures the loader does not wait for its
\* textures: it is READY as soon as every other sub-loader has resolved,
\* also while a texture is still pending; without it, READY waits for
\* every texture.
C17_IncrementalTextures ==
    /\ (/\ incrementallyLoadTextures /\ all.registered /\ ~destroyed
        /\ \A p \in Promises \ TexturePromises : Status(M, p) = "ready"
        /\ \A p \in TexturePromises : Status(M, p) # "failed")
          => state = READY
    /\ (~incrementallyLoadTextures /\ state = READY)
          => \A p \in TexturePromises : Status(M, p) = "ready"

\* The buffer-backed vertex attributes of the graph, each with the accessor
\* it was created from: <<object, accessor>> per attribute of every
\* primitive whose accessor has a buffer view and that no mesh compression
\* covers.
AttributePairs ==
    UNION {UNION {
      {<<objs[components.nodes[n].primitives[p].attributes[i]],
         gltf.accessors[gltf.meshes[gltf.nodes[n].mesh].primitives[p].attributes[i].accessor]>>
         : i \in {j \in 1..Len(components.nodes[n].primitives[p].attributes) :
                    /\ gltf.accessors[gltf.meshes[gltf.nodes[n].mesh].primitives[p]
                                        .attributes[j].accessor].bufferView # 0
                    /\ gltf.meshes[gltf.nodes[n].mesh].primitives[p].attributes[j].semantic
                          \notin gltf.meshes[gltf.nodes[n].mesh].primitives[p]
                                    .draco.attributes}}
      : p \in 1..Len(components.nodes[n].primitives)}
      : n \in 1..Len(components.nodes)}

\* C18: interleaved attributes.  In a READY loader two attributes reference
\* the same buffer handle exactly when their accessors reference the same
\* buffer view, and each attribute has the byteOffset and byteStride of its
\* own accessor (12 and 0 with stride 24 for POSITION and NORMAL of
\* BoxInterleaved).
C18_InterleavedAttributes ==
    state = READY =>
       /\ \A a, b \in AttributePairs :
             (a[1].buffer = b[1].buffer) <=> (a[2].bufferView = b[2].bufferView)
       /\ \A a \in AttributePairs :
             /\ a[1].buffer # NoKey
             /\ a[1].byteOffset = a[2].byteOffset
             /\ a[1].byteStride = getAccessorByteStride(gltf, a[2])
       /\ gltf.name = "BoxInterleaved" =>
             {<<a[1].semantic, a[1].byteOffset, a[1].byteStride>> : a \in AttributePairs}
               = {<<"POSITION", 12, 24>>, <<"NORMAL", 0, 24>>}

\* BoxInterleaved is READY: POSITION and NORMAL share one buffer at
\* different offsets.
C18_Witness ==
    /\ state = READY /\ gltf.name = "BoxInterleaved"
    /\ \E a, b \in AttributePairs :
          /\ a[1].buffer = b[1].buffer /\ a[1].buffer # NoKey
          /\ a[1].byteOffset = 12 /\ b[1].byteOffset = 0

\* BoxTextured is READY: POSITION and TEXCOORD_0 have different buffers.
C18_WitnessDistinct ==
    /\ state = READY /\ gltf.name = "BoxTextured"
    /\ \E a, b \in AttributePairs :
          /\ a[1].buffer # b[1].buffer
          /\ a[1].buffer # NoKey /\ b[1].buffer # NoKey

\* The primitives of the graph that have morph targets, each with its
\* document node: <<output primitive, node id, number of targets>>.
MorphPrimitives ==
    UNION {
      {<<components.nodes[n].primitives[p], n,
         Len(gltf.meshes[gltf.nodes[n].mesh].primitives[p].targets)>>
         : p \in {q \in 1..Len(components.nodes[n].primitives) :
                    Len(gltf.meshes[gltf.nodes[n].mesh].primitives[q].targets) > 0}}
      : n \in 1..Len(components.nodes)}

\* C19: morph weights.  A primitive with N morph targets has a weight array
\* of its own (not an array of the document) whose values are those of the
\* node's weights if the node declares them, else those of the mesh's
\* weights if the mesh declares them, else N zeros.
C19_MorphWeights ==
    components.defined =>
       \A t \in MorphPrimitives :
          /\ t[1].morphWeights.defined
          /\ t[1].morphWeights.array = "new"
          /\ t[1].morphWeights.values =
                IF gltf.nodes[t[2]].weights.defined
                THEN gltf.nodes[t[2]].weights.values
                ELSE IF gltf.meshes[gltf.nodes[t[2]].mesh].weights.defined
                THEN gltf.meshes[gltf.nodes[t[2]].mesh].weights.values
                ELSE [i \in 1..t[3] |-> 0]

\* MorphWeights is READY: the primitive of node 1 has the node's weights
\* (not the mesh's), the primitive of node 2 two zeros.
C19_Witness ==
    /\ state = READY /\ gltf.name = "MorphWeights"
    /\ components.nodes[1].primitives[1].morphWeights.values = <<1, 2>>
    /\ components.nodes[2].primitives[1].morphWeights.values = <<0, 0>>

\* SimpleMorph is READY: the primitive has a copy of the mesh's weights.
C19_WitnessMesh ==
    /\ state = READY /\ gltf.name = "SimpleMorph"
    /\ components.nodes[1].primitives[1].morphWeights.values = <<5, 5>>
    /\ Len(components.nodes[1].primitives[1].morphTargets) = 2

\* C20: skin defaulting.  A node that references a skin without an
\* inverseBindMatrices accessor has a skin in the graph whose joints are the
\* node-table entries of the skin's joint ids, in order, with one identity
\* matrix per joint.
C20_SkinDefaulting ==
    components.defined =>
       \A n \in 1..Len(gltf.nodes) :
          (gltf.nodes[n].skin # 0
             /\ gltf.skins[gltf.nodes[n].skin].inverseBindMatrices = 0)
            => /\ components.nodes[n].skin.defined
               /\ components.nodes[n].skin.joints = gltf.skins[gltf.nodes[n].skin].joints
               /\ components.nodes[n].skin.inverseBindMatrices
                    = [i \in 1..Len(gltf.skins[gltf.nodes[n].skin].joints) |-> "IDENTITY"]

\* C21: every node of the graph has exactly one transform representation:
\* the matrix, or translation, rotation and scale, never both and never
\* neither; a document node that declares both keeps only the matrix.
C21_OneTransform ==
    components.defined =>
       \A n \in 1..Len(components.nodes) :
          \/ /\ components.nodes[n].matrix.defined
             /\ ~components.nodes[n].translation.defined
             /\ ~components.nodes[n].rotation.defined
             /\ ~components.nodes[n].scale.defined
          \/ /\ ~components.nodes[n].matrix.defined
             /\ components.nodes[n].translation.defined
             /\ components.nodes[n].rotation.defined
             /\ components.nodes[n].scale.defined

\* The vertex attributes of the graph, each with the accessor it was
\* created from, the compression payload of its primitive and the promise
\* of its vertex-buffer loader: <<object, accessor, draco, key>>.
DracoAttributes ==
    UNION {UNION {
      {<<objs[components.nodes[n].primitives[p].attributes[i]],
         gltf.accessors[gltf.meshes[gltf.nodes[n].mesh].primitives[p].attributes[i].accessor],
         gltf.meshes[gltf.nodes[n].mesh].primitives[p].draco,
         VertexBufferKey(
           gltf.accessors[gltf.meshes[gltf.nodes[n].mesh].primitives[p]
                            .attributes[i].accessor].bufferView,
           gltf.meshes[gltf.nodes[n].mesh].primitives[p].draco,
           gltf.meshes[gltf.nodes[n].mesh].primitives[p].attributes[i].semantic)>>
         : i \in 1..Len(components.nodes[n].primitives[p].attributes)}
      : p \in 1..Len(components.nodes[n].primitives)}
      : n \in 1..Len(components.nodes)}

\* C22: mesh-compression re-typing.  An attribute that the compression
\* mapping covers and whose vertex-buffer loader has resolved has byteOffset
\* 0, no byteStride, the componentDatatype and the quantization of the
\* loader, and type VEC2 when the quantization is octahedral-encoded,
\* whatever type its accessor declares; an attribute the mapping does not
\* cover keeps the byteOffset, byteStride and type of its accessor.  While
\* the loader is live, every attribute whose vertex-buffer loader is ready
\* has been populated.
C22_DracoRetyping ==
    components.defined =>
       \A a \in DracoAttributes :
          /\ (a[1].buffer # NoKey /\ a[1].semantic \in a[3].attributes) =>
                /\ a[1].buffer = a[4]
                /\ a[1].byteOffset = 0
                /\ a[1].byteStride = 0
                /\ a[1].componentDatatype = a[3].componentDatatype
                /\ a[1].quantized
                /\ (a[1].semantic \in a[3].octEncoded) => a[1].type = "VEC2"
          /\ (a[1].semantic \notin a[3].attributes) =>
                /\ a[1].byteOffset = a[2].byteOffset
                /\ a[1].byteStride = getAccessorByteStride(gltf, a[2])
                /\ a[1].type = a[2].type
                /\ ~a[1].quantized
          /\ ((state = PROCESSING \/ state = READY) /\ Status(M, a[4]) = "ready"
                /\ a[4] \in Range(loaders))
                => a[1].buffer = a[4]

\* DracoNormals: the loader of NORMAL has resolved; NORMAL, declared VEC3 at
\* offset 4, is now VEC2 at offset 0, and TEXCOORD_0 has offset 8, stride 16.
C22_Witness ==
    /\ gltf.name = "DracoNormals" /\ components.defined
    /\ \E a, b \in DracoAttributes :
          /\ a[1].semantic = "NORMAL" /\ a[1].buffer # NoKey
          /\ a[2].type = "VEC3" /\ a[2].byteOffset = 4
          /\ a[1].type = "VEC2" /\ a[1].byteOffset = 0
          /\ b[1].semantic = "TEXCOORD_0" /\ b[1].buffer # NoKey
          /\ b[1].byteOffset = 8 /\ b[1].byteStride = 16

\* The metadata loaders that were started.
MetadataLoaders == {k \in DOMAIN sub : k[1] = "featureMetadata"}

\* C23: feature metadata.  For a document that declares the extension
\* exactly one metadata loader is started once the graph is assembled, it is
\* one of the loaders READY waits for, and once it has resolved its result
\* is the featureMetadata of the graph; for a document without the extension
\* no metadata loader exists and the graph has no featureMetadata.
C23_FeatureMetadata ==
    /\ (gltf.extFeatureMetadata /\ components.defined) =>
          /\ Cardinality(MetadataLoaders) = 1
          /\ \A k \in MetadataLoaders :
                (Status(M, k) = "ready" /\ ~destroyed)
                   => components.featureMetadata = Handle(k)
    /\ ~gltf.extFeatureMetadata =>
          /\ MetadataLoaders = {}
          /\ components.featureMetadata = NoKey

\* C24: instancing.  A node whose document entry declares the instancing
\* extension has an Instances block, and each of its attributes with a
\* buffer view has, once the loader is READY, either a buffer and no typed
\* array or a typed array and no buffer.
C24_Instancing ==
    components.defined =>
       \A n \in 1..Len(components.nodes) :
          gltf.nodes[n].instancing.defined =>
             /\ components.nodes[n].instances.defined
             /\ Len(components.nodes[n].instances.attributes)
                  = Len(gltf.nodes[n].instancing.attributes)
             /\ state = READY =>
                  \A i \in 1..Len(components.nodes[n].instances.attributes) :
                     gltf.accessors[gltf.nodes[n].instancing.attributes[i].accessor]
                         .bufferView # 0
                       => (objs[components.nodes[n].instances.attributes[i]].buffer = NoKey)
                            # (objs[components.nodes[n].instances.attributes[i]].typedArray
                                 = NoKey)

\* The primitives of the graph, each with its document primitive:
\* <<output primitive, document primitive>>.
PrimitivePairs ==
    UNION {
      {<<components.nodes[n].primitives[p], gltf.meshes[gltf.nodes[n].mesh].primitives[p]>>
         : p \in 1..Len(components.nodes[n].primitives)}
      : n \in 1..Len(components.nodes)}

\* C27: feature-ID attributes.  A primitive, or an instances block, whose
\* feature-metadata extension lists K feature-ID attributes has K
\* FeatureIdAttribute entries, the i-th made from the i-th listed entry.
C27_FeatureIdAttributes ==
    components.defined =>
       /\ \A pp \in PrimitivePairs :
             /\ Len(pp[1].featureIdAttributes)
                  = Len(pp[2].featureMetadata.featureIdAttributes)
             /\ \A i \in 1..Len(pp[1].featureIdAttributes) :
                   pp[1].featureIdAttributes[i]
                     = loadFeatureIdAttribute(pp[2].featureMetadata.featureIdAttributes[i])
       /\ \A n \in 1..Len(components.nodes) :
             components.nodes[n].instances.defined =>
                Len(components.nodes[n].instances.featureIdAttributes)
                  = Len(gltf.nodes[n].instancing.featureMetadata.featureIdAttributes)

\* The document has a primitive with a feature-ID texture.
HasFeatureIdTextures ==
    \E i \in 1..Len(gltf.meshes) : \E p \in 1..Len(gltf.meshes[i].primitives) :
       Len(gltf.meshes[i].primitives[p].featureMetadata.featureIdTextures) > 0

\* C28: feature-ID textures.  Every feature-ID texture of the graph has the
\* nearest sampler, whatever sampler its texture declares, and a run of
\* parse over a document with feature-ID textures is never cut short: it
\* sets the components and reaches when.all, also when no image is selected
\* for the texture.
C28_FeatureIdTextures ==
    [][/\ components'.defined =>
             \A n \in 1..Len(components'.nodes) :
                \A p \in 1..Len(components'.nodes[n].primitives) :
                   \A t \in 1..Len(components'.nodes[n].primitives[p].featureIdTextures) :
                      objs'[components'.nodes[n].primitives[p].featureIdTextures[t].texture]
                          .sampler = "NEAREST"
       /\ (HasFeatureIdTextures /\ parseCount' > parseCount) => all'.registered]_vars

\* C25: inverse bind matrices from data.  For a node whose skin declares an
\* inverseBindMatrices accessor with a buffer view, the loader of that buffer
\* view is one of the sub-loaders READY waits for, and in a READY loader the
\* skin has one matrix per joint, unpacked from the buffer view at element
\* 16 * i, and no identity default.
C25_InverseBindMatricesFromData ==
    components.defined =>
       \A n \in 1..Len(gltf.nodes) :
          (/\ gltf.nodes[n].skin # 0
           /\ gltf.skins[gltf.nodes[n].skin].inverseBindMatrices # 0
           /\ gltf.accessors[gltf.skins[gltf.nodes[n].skin].inverseBindMatrices]
                .bufferView # 0)
            => /\ all.registered =>
                    BufferViewKey(
                      gltf.accessors[gltf.skins[gltf.nodes[n].skin].inverseBindMatrices]
                        .bufferView) \in Promises
               /\ state = READY =>
                    /\ components.nodes[n].skin.defined
                    /\ Len(components.nodes[n].skin.inverseBindMatrices)
                         = Len(gltf.skins[gltf.nodes[n].skin].joints)
                    /\ \A i \in 1..Len(components.nodes[n].skin.inverseBindMatrices) :
                          components.nodes[n].skin.inverseBindMatrices[i] # "IDENTITY"

\* The texture slots a document material declares with a selected image,
\* each with the slot of the output material: <<textureInfo, slot>>.
DeclaredSlots(material, gltfMaterial) ==
    {d \in {<<gltfMaterial.emissiveTexture, material.emissiveTexture>>}
             \cup (IF gltfMaterial.hasPbr
                   THEN {<<gltfMaterial.baseColorTexture, material.baseColorTexture>>,
                         <<gltfMaterial.metallicRoughnessTexture,
                           material.metallicRoughnessTexture>>}
                   ELSE {}) :
        d[1].index # 0 /\ getImageIdFromTexture(gltf, d[1].index) # 0}

\* C26: material texture slots.  For every texture slot that the document
\* material declares and for which an image is selected, the slot of the
\* output material holds a Texture, a texture sub-loader was spawned for it
\* with a continuation that sets the handle of that Texture, and in a READY
\* loader the handle is set.
C26_MaterialTextureSlots ==
    components.defined =>
       \A pp \in PrimitivePairs :
          pp[2].material # 0 =>
             \A d \in DeclaredSlots(pp[1].material, gltf.materials[pp[2].material]) :
                /\ d[2] # 0
                /\ \E i \in 1..Len(conts) :
                      /\ conts[i].kind = "texture"
                      /\ conts[i].loader = TextureKey(d[1])
                      /\ conts[i].obj = d[2]
                /\ state = READY => objs[d[2]].buffer = TextureKey(d[1])

\* C29: indices.  A primitive of the graph has no Indices exactly when its
\* document primitive has no index accessor, or one without a buffer view
\* while the primitive is not mesh-compressed.  Otherwise it has an Indices
\* object with the componentType and the count of the accessor, an
\* index-buffer loader was spawned with a continuation that sets its buffer,
\* and the buffer is the handle of that loader once the loader has resolved.
C29_Indices ==
    components.defined =>
       \A pp \in PrimitivePairs :
          /\ (pp[1].indices = 0)
               <=> \/ pp[2].indices = 0
                   \/ /\ gltf.accessors[pp[2].indices].bufferView = 0
                      /\ ~pp[2].draco.defined
          /\ pp[1].indices # 0 =>
               /\ objs[pp[1].indices].kind = "indices"
               /\ objs[pp[1].indices].componentDatatype
                    = gltf.accessors[pp[2].indices].componentType
               /\ objs[pp[1].indices].count = gltf.accessors[pp[2].indices].count
               /\ \E i \in 1..Len(conts) :
                     /\ conts[i].kind = "indices"
                     /\ conts[i].loader = IndexBufferKey(pp[2].indices, pp[2].draco)
                     /\ conts[i].obj = pp[1].indices
               /\ objs[pp[1].indices].buffer
                    \in {NoKey, IndexBufferKey(pp[2].indices, pp[2].draco)}
               /\ ((state = PROCESSING \/ state = READY)
                     /\ IndexBufferKey(pp[2].indices, pp[2].draco) \in Range(loaders)
                     /\ Status(M, IndexBufferKey(pp[2].indices, pp[2].draco)) = "ready")
                    => objs[pp[1].indices].buffer
                         = IndexBufferKey(pp[2].indices, pp[2].draco)

\* DracoNormals is READY: its index accessor has no buffer view, the
\* primitive is mesh-compressed, and the Indices hold the handle of the
\* index-buffer loader of the compressed payload.
C29_Witness ==
    /\ state = READY /\ gltf.name = "DracoNormals"
    /\ \E pp \in PrimitivePairs :
          /\ gltf.accessors[pp[2].indices].bufferView = 0
          /\ pp[1].indices # 0
          /\ objs[pp[1].indices].buffer = IndexBufferKey(pp[2].indices, pp[2].draco)
          /\ objs[pp[1].indices].count = 36

\* EmissiveTextured is READY: its index accessor has no buffer view, the
\* primitive is not mesh-compressed, and it has no Indices.
C29_WitnessOmitted ==
    /\ state = READY /\ gltf.name = "EmissiveTextured"
    /\ \E pp \in PrimitivePairs :
          /\ pp[2].indices # 0
          /\ pp[1].indices = 0

\* C30: node references.  Every entry of scene.nodes, every child of a node
\* and every joint of a skin of the graph is an entry of the node table
\* components.nodes and never undefined, for a document that names a default
\* scene and for one that names none.
C30_NodeReferences ==
    components.defined =>
       /\ \A i \in 1..Len(components.scene.nodes) :
             components.scene.nodes[i] \in 1..Len(components.nodes)
       /\ \A n \in 1..Len(components.nodes) :
             /\ \A c \in 1..Len(components.nodes[n].children) :
                   components.nodes[n].children[c] \in 1..Len(components.nodes)
             /\ \A j \in 1..Len(components.nodes[n].skin.joints) :
                   components.nodes[n].skin.joints[j] \in 1..Len(components.nodes)

\* unload() has been called on a loader that is not destroyed and is not
\* READY (unload leaves the state as it is): it has just returned, or a
\* sub-loader of the list it emptied records the unload, or the document
\* loader is gone although no assembly has registered its when.all.
UnloadedBeforeReady ==
    /\ ~destroyed
    /\ state \in {LOADING, PROCESSING}
    /\ \/ lastOp \in {"unload", "unload again"}
       \/ \E k \in DOMAIN sub : sub[k].unloads > 0
       \/ loadCalled /\ ~gltfJsonLoader /\ ~all.registered

\* C31: after unload() on a loader that is not destroyed and not yet READY
\* (LOADING, or PROCESSING before or after the assembly) no step makes the
\* loader READY or resolves its promise, whatever the document loader and
\* the sub-loaders do later.
C31_UnloadCancelsLoad ==
    [][UnloadedBeforeReady =>
          (state' # READY /\ promise'.status # "resolved")]_vars

\* C32: a sub-loader that the cache handed out for several attributes is one
\* instance.  A process() tick forwards process to each sub-loader at most
\* once, and an unload() calls unload on each sub-loader at most once.
C32_OncePerSubLoader ==
    [][/\ lastOp' = "process" =>
             \A i, j \in 1..Len(ticked') : ticked'[i] = ticked'[j] => i = j
       /\ lastOp' \in {"unload", "unload again"} =>
             \A k \in DOMAIN sub \cap DOMAIN sub' :
                sub'[k].unloads <= sub[k].unloads + 1]_vars

\* Component k of the accessor's view on the source: the component of the
\* buffer k components after the byteOffset of the accessor.
SourceComponent(k) ==
    typedArray.source.buffer[
      (gltf.accessors[1].byteOffset \div SizeInBytes(gltf.accessors[1].componentType)) + k]

\* C33: getAccessorTypedArray, when the view on the source can be created.
\* For an accessor of count N with C components
\* per element and a byte stride above the packed element size the result
\* has N * C entries and entry i * C + j is the source component
\* i * componentStride + j; for a tightly packed accessor the result holds
\* the components of the source unchanged.
C33_TypedArrayRepacked ==
    (typedArray.called /\ ~typedArray.result.thrown) =>
       /\ getAccessorByteStride(gltf, gltf.accessors[1])
            > SizeInBytes(gltf.accessors[1].componentType)
                * NumberOfComponentsForType(gltf.accessors[1].type)
          => /\ DOMAIN typedArray.result.array
                  = 0..(gltf.accessors[1].count
                          * NumberOfComponentsForType(gltf.accessors[1].type) - 1)
             /\ \A i \in 0..(gltf.accessors[1].count - 1) :
                   \A j \in 0..(NumberOfComponentsForType(gltf.accessors[1].type) - 1) :
                      typedArray.result.array[
                          i * NumberOfComponentsForType(gltf.accessors[1].type) + j]
                        = SourceComponent(
                            i * (getAccessorByteStride(gltf, gltf.accessors[1])
                                   \div SizeInBytes(gltf.accessors[1].componentType)) + j)
       /\ getAccessorByteStride(gltf, gltf.accessors[1])
            = SizeInBytes(gltf.accessors[1].componentType)
                * NumberOfComponentsForType(gltf.accessors[1].type)
          => \A k \in 0..(gltf.accessors[1].count
                            * NumberOfComponentsForType(gltf.accessors[1].type) - 1) :
                typedArray.result.array[k] = SourceComponent(k)

====
